---- MODULE Spec2Model ----
(***************************************************************************)
(* GPTorio: the simulation core (the world data model, placeBuilding and   *)
(* the per-tick update stepGame), the loading of saved worlds, the         *)
(* autosave loop of the client and the save-slot mutations of the backend. *)
(***************************************************************************)
EXTENDS Integers, Sequences, FiniteSets, TLC

VARIABLES
  world,   \* the current GameState value held by the caller
  pre,     \* the GameState that was passed to the last operation
  op,      \* the last operation and its arguments
  ev,      \* what the production phase of the last stepGame emitted
  placed,  \* the number of placeBuilding calls so far
  stepped, \* the number of stepGame calls so far
  watch,   \* the building under observation and the steps since it was fresh
  held,    \* what the caller's reference to the last input shows after the call
  latestStateRef, \* GameApp: the state the autosave reads
  dirtyRef,       \* GameApp: whether there is something to save
  inflight,       \* GameApp: the saveGame requests sent and not yet answered
  games,          \* backend: the documents of the games table
  calls,          \* backend: the mutation calls that are running
  lastCall,       \* backend: the call that ended last, and the table before it
  effectPending,  \* GameApp: gameState was set and its effect has not run yet
  gameDoc,        \* the saved snapshot that a session loads
  loaded          \* what normalizeState made of it

simVars == <<world, pre, op, ev, placed, stepped, watch, held, effectPending>>
saveVars == <<latestStateRef, dirtyRef, inflight>>
cloudVars == <<games, calls, lastCall>>
loadVars == <<gameDoc, loaded>>

vars == <<world, pre, op, ev, placed, stepped, watch, held, effectPending,
          latestStateRef, dirtyRef, inflight, games, calls, lastCall, gameDoc, loaded>>

(***************************************************************************)
(* Bounds of the model.                                                    *)
(***************************************************************************)
Width == 3
Height == 3
MaxTick == 2
MaxPlace == 1
BeltTicks == 2
FactoryTicks == 2
Slack == 1
StallTicks == 3
MaxInflight == 2
MergeTicks == 2
ChainTicks == 2
PlayTicks == 2
WorksTicks == 13
RestTicks == 2
LineLen == 2

(***************************************************************************)
(* Types and constants of the game.                                        *)
(***************************************************************************)
DIRECTIONS == <<"up", "right", "down", "left">>
Direction == {"up", "right", "down", "left"}
TerrainType == {"empty", "iron", "copper"}
BuildingType == {"mine", "belt", "furnace", "assembler", "wire-mill", "hub", "chest"}
ItemType == {"iron-ore", "copper-ore", "iron-plate", "copper-plate", "gear", "wire"}
Tool == BuildingType \cup {"erase"}

MINE_TICKS == 4
FURNACE_TICKS == 6
ASSEMBLER_TICKS == 8
WIRE_MILL_TICKS == 5

\* An absent ground item (null in items[y][x]).
NoItem == "none"

createBuffer == [k \in ItemType |-> 0]

\* An absent building (null in tiles[y][x].building).
NoBuilding == [type |-> "none", dir |-> "up", progress |-> 0, buffer |-> createBuffer]

createInventory(seed) == [k \in ItemType |-> IF k \in DOMAIN seed THEN seed[k] ELSE 0]

BUILD_COSTS ==
  [t \in BuildingType |->
     CASE t = "belt"      -> [k \in {"iron-plate"} |-> 1]
       [] t = "mine"      -> [k \in {"iron-plate", "gear"} |-> IF k = "gear" THEN 2 ELSE 4]
       [] t = "furnace"   -> [k \in {"iron-plate", "copper-plate"} |-> IF k = "iron-plate" THEN 3 ELSE 2]
       [] t = "assembler" -> [k \in {"iron-plate", "gear"} |-> 4]
       [] t = "wire-mill" -> [k \in {"iron-plate", "copper-plate"} |-> IF k = "iron-plate" THEN 2 ELSE 3]
       [] t = "hub"       -> [k \in {"iron-plate", "copper-plate", "gear"} |->
                                IF k = "iron-plate" THEN 6 ELSE IF k = "copper-plate" THEN 4 ELSE 2]
       [] t = "chest"     -> [k \in {"iron-plate"} |-> 2]]

Positions(w) == (0 .. w.width - 1) \X (0 .. w.height - 1)

inBounds(state, x, y) == x >= 0 /\ y >= 0 /\ x < state.width /\ y < state.height

stepInDir(x, y, dir) ==
  CASE dir = "up"    -> <<x, y - 1>>
    [] dir = "right" -> <<x + 1, y>>
    [] dir = "down"  -> <<x, y + 1>>
    [] dir = "left"  -> <<x - 1, y>>

canPlaceItem(state, x, y) ==
  IF ~inBounds(state, x, y) THEN FALSE
  ELSE LET building == state.tiles[<<x, y>>].building IN
       IF building.type # "none" /\ building.type # "belt" THEN FALSE
       ELSE state.items[<<x, y>>] = NoItem

canAffordBuild(state, type) ==
  LET cost == BUILD_COSTS[type] IN
  \A item \in DOMAIN cost : ~(state.inventory[item] < cost[item])

\* Mutant: only the iron-plate part of the cost is spent.
spendBuildCost_IronOnly(state, type) ==
  LET cost == BUILD_COSTS[type] IN
  [state EXCEPT !.inventory =
     [k \in ItemType |-> IF k = "iron-plate" THEN @[k] - cost[k] ELSE @[k]]]

spendBuildCost(state, type) ==
  LET cost == BUILD_COSTS[type] IN
  [state EXCEPT !.inventory =
     [k \in ItemType |-> IF k \in DOMAIN cost THEN @[k] - cost[k] ELSE @[k]]]

(***************************************************************************)
(* cloneState.  Worlds are values here, so the copy itself is the same     *)
(* value; what matters to a caller who keeps the input is which objects    *)
(* of the input the copy allocates anew (owned) and which it would share.  *)
(* The state object itself is always a new literal.                        *)
(***************************************************************************)
Components == {"tile", "building", "buffer", "items", "inventory", "stats"}

cloneItemGrid(items) == [p \in DOMAIN items |-> items[p]]

\* Mutant: the buffer of a building is passed on instead of spread.
cloneState_SharedBuffer(state) ==
  [next |-> state, owned |-> Components \ {"buffer"}]

cloneState(state) ==
  [next |->
     [width |-> state.width,
      height |-> state.height,
      tick |-> state.tick,
      tiles |-> [p \in DOMAIN state.tiles |->
                   [terrain |-> state.tiles[p].terrain,
                    resource |-> state.tiles[p].resource,
                    building |->
                      IF state.tiles[p].building.type # "none"
                        THEN [type |-> state.tiles[p].building.type,
                              dir |-> state.tiles[p].building.dir,
                              progress |-> state.tiles[p].building.progress,
                              buffer |-> [k \in ItemType |-> state.tiles[p].building.buffer[k]]]
                        ELSE NoBuilding]],
      items |-> cloneItemGrid(state.items),
      inventory |-> [k \in ItemType |-> state.inventory[k]],
      stats |-> [k \in DOMAIN state.stats |-> state.stats[k]]],
   owned |-> {"tile", "building", "buffer", "items", "inventory", "stats"}]

\* What the holder of `state` reads through it after a call that cloned it
\* and then wrote, in place, next into the clone: a write lands in the input
\* wherever the clone does not own the object written to.  written is the
\* item grid as the in-place writes to next.items left it; inPlace says
\* whether the call writes into the buildings it found (stepGame does,
\* placeBuilding only replaces a tile's building by a new object).
callerView(state, next, written, inPlace) ==
  LET owned == cloneState(state).owned
      buildingView(p) ==
        LET old == state.tiles[p].building
            new == next.tiles[p].building
        IN IF old.type = "none" \/ ~inPlace THEN old
           ELSE IF "building" \notin owned THEN new
           ELSE IF "buffer" \notin owned THEN [old EXCEPT !.buffer = new.buffer]
           ELSE old
  IN [state EXCEPT
        !.tiles = [p \in DOMAIN state.tiles |->
                     IF "tile" \notin owned THEN next.tiles[p]
                     ELSE [state.tiles[p] EXCEPT !.building = buildingView(p)]],
        !.items = IF "items" \notin owned THEN written ELSE @,
        !.inventory = IF "inventory" \notin owned THEN next.inventory ELSE @,
        !.stats = IF "stats" \notin owned THEN next.stats ELSE @]

\* Mutant: the affordability gate is missing.
placeBuilding_NoGate(state, x, y, type, dir) ==
  IF x < 0 \/ y < 0 \/ x >= state.width \/ y >= state.height THEN state
  ELSE IF type = "erase"
    THEN [state EXCEPT !.tiles[<<x, y>>].building = NoBuilding]
  ELSE LET spent == spendBuildCost(state, type)
           built == [spent EXCEPT !.tiles[<<x, y>>].building =
                       [type |-> type, dir |-> dir, progress |-> 0, buffer |-> createBuffer]]
       IN IF type # "belt"
            THEN [built EXCEPT !.items[<<x, y>>] = NoItem]
            ELSE built

\* Mutant: erase clears the ground item as placing a machine does.
placeBuilding_EraseItem(state, x, y, type, dir) ==
  IF x < 0 \/ y < 0 \/ x >= state.width \/ y >= state.height THEN state
  ELSE IF type = "erase"
    THEN [state EXCEPT !.tiles[<<x, y>>].building = NoBuilding,
                       !.items[<<x, y>>] = NoItem]
  ELSE IF ~canAffordBuild(state, type) THEN state
  ELSE LET spent == spendBuildCost(state, type)
           built == [spent EXCEPT !.tiles[<<x, y>>].building =
                       [type |-> type, dir |-> dir, progress |-> 0, buffer |-> createBuffer]]
       IN IF type # "belt"
            THEN [built EXCEPT !.items[<<x, y>>] = NoItem]
            ELSE built

\* Mutant: placing a machine leaves the ground item of the tile.
placeBuilding_KeepItem(state, x, y, type, dir) ==
  IF x < 0 \/ y < 0 \/ x >= state.width \/ y >= state.height THEN state
  ELSE IF type = "erase"
    THEN [state EXCEPT !.tiles[<<x, y>>].building = NoBuilding]
  ELSE IF ~canAffordBuild(state, type) THEN state
  ELSE LET spent == spendBuildCost(state, type)
       IN [spent EXCEPT !.tiles[<<x, y>>].building =
             [type |-> type, dir |-> dir, progress |-> 0, buffer |-> createBuffer]]

placeBuilding(state, x, y, type, dir) ==
  IF x < 0 \/ y < 0 \/ x >= state.width \/ y >= state.height THEN state
  ELSE LET next == cloneState(state).next IN
  IF type = "erase"
    THEN [next EXCEPT !.tiles[<<x, y>>].building = NoBuilding]
  ELSE IF ~canAffordBuild(next, type) THEN state
  ELSE LET spent == spendBuildCost(next, type)
           built == [spent EXCEPT !.tiles[<<x, y>>].building =
                       [type |-> type, dir |-> dir, progress |-> 0, buffer |-> createBuffer]]
       IN IF type # "belt"
            THEN [built EXCEPT !.items[<<x, y>>] = NoItem]
            ELSE built

\* The absent result (null) of the neighbour searches.
NoNeighbor == <<-1, -1>>

RECURSIVE findNeighborFrom(_, _, _, _, _)
findNeighborFrom(state, x, y, types, k) ==
  IF k > Len(DIRECTIONS) THEN NoNeighbor
  ELSE LET n == stepInDir(x, y, DIRECTIONS[k]) IN
       IF inBounds(state, n[1], n[2]) /\ state.items[n] \in types
         THEN n
         ELSE findNeighborFrom(state, x, y, types, k + 1)

findNeighborItem(state, x, y, type) == findNeighborFrom(state, x, y, {type}, 1)

findNeighborItemByTypes(state, x, y, types) == findNeighborFrom(state, x, y, types, 1)

findNeighborItemAny(state, x, y) == findNeighborFrom(state, x, y, ItemType, 1)

(***************************************************************************)
(* stepGame, production phase.  The scan state s is [w, ev]: w is the      *)
(* world being updated in place (next), ev records what has been emitted   *)
(* so far in this step and which buildings were blocked or have emitted.   *)
(***************************************************************************)
NoEvents == [ores |-> 0, plates |-> 0, gears |-> 0, wires |-> 0,
             emitters |-> {}, blocked |-> {}]

\* Mutant: the cycle test is off by one (> for >=).
mineBranch_LateEmit(s, x, y) ==
  LET w == s.w
      p == <<x, y>>
      tile == w.tiles[p]
      building == tile.building
  IN
  IF tile.terrain = "empty" THEN s
  ELSE IF tile.resource <= 0 THEN s
  ELSE
    LET progress == building.progress + 1
        n == stepInDir(x, y, building.dir)
    IN
    IF progress > MINE_TICKS
      THEN IF canPlaceItem(w, n[1], n[2])
        THEN
          LET terrain == tile.terrain
              oreType == IF terrain = "iron" THEN "iron-ore" ELSE "copper-ore"
              resource == tile.resource - 1
              w1 == [w EXCEPT !.items[n] = oreType,
                              !.tiles[p].building.progress = 0,
                              !.tiles[p].resource = IF resource <= 0 THEN 0 ELSE resource,
                              !.tiles[p].terrain = IF resource <= 0 THEN "empty" ELSE @]
              w2 == IF terrain = "iron"
                      THEN [w1 EXCEPT !.stats.ironMined = @ + 1]
                      ELSE [w1 EXCEPT !.stats.copperMined = @ + 1]
          IN [w |-> w2,
              ev |-> [s.ev EXCEPT !.ores = @ + 1, !.emitters = @ \cup {p}]]
        ELSE [w |-> [w EXCEPT !.tiles[p].building.progress = progress],
              ev |-> [s.ev EXCEPT !.blocked = @ \cup {p}]]
      ELSE [s EXCEPT !.w.tiles[p].building.progress = progress]

\* Mutant: a blocked mine starts its cycle over.
mineBranch_ResetWhenBlocked(s, x, y) ==
  LET w == s.w
      p == <<x, y>>
      tile == w.tiles[p]
      building == tile.building
  IN
  IF tile.terrain = "empty" THEN s
  ELSE IF tile.resource <= 0 THEN s
  ELSE
    LET progress == building.progress + 1
        n == stepInDir(x, y, building.dir)
    IN
    IF progress >= MINE_TICKS
      THEN IF canPlaceItem(w, n[1], n[2])
        THEN
          LET terrain == tile.terrain
              oreType == IF terrain = "iron" THEN "iron-ore" ELSE "copper-ore"
              resource == tile.resource - 1
              w1 == [w EXCEPT !.items[n] = oreType,
                              !.tiles[p].building.progress = 0,
                              !.tiles[p].resource = IF resource <= 0 THEN 0 ELSE resource,
                              !.tiles[p].terrain = IF resource <= 0 THEN "empty" ELSE @]
              w2 == IF terrain = "iron"
                      THEN [w1 EXCEPT !.stats.ironMined = @ + 1]
                      ELSE [w1 EXCEPT !.stats.copperMined = @ + 1]
          IN [w |-> w2,
              ev |-> [s.ev EXCEPT !.ores = @ + 1, !.emitters = @ \cup {p}]]
        ELSE [w |-> [w EXCEPT !.tiles[p].building.progress = 0],
              ev |-> [s.ev EXCEPT !.blocked = @ \cup {p}]]
      ELSE [s EXCEPT !.w.tiles[p].building.progress = progress]

\* Mutant: the mine does not look at the terrain, only at the resource.
mineBranch_NoTerrainCheck(s, x, y) ==
  LET w == s.w
      p == <<x, y>>
      tile == w.tiles[p]
      building == tile.building
  IN
  IF tile.resource <= 0 THEN s
  ELSE
    LET progress == building.progress + 1
        n == stepInDir(x, y, building.dir)
    IN
    IF progress >= MINE_TICKS
      THEN IF canPlaceItem(w, n[1], n[2])
        THEN
          LET terrain == tile.terrain
              oreType == IF terrain = "iron" THEN "iron-ore" ELSE "copper-ore"
              resource == tile.resource - 1
              w1 == [w EXCEPT !.items[n] = oreType,
                              !.tiles[p].building.progress = 0,
                              !.tiles[p].resource = IF resource <= 0 THEN 0 ELSE resource,
                              !.tiles[p].terrain = IF resource <= 0 THEN "empty" ELSE @]
              w2 == IF terrain = "iron"
                      THEN [w1 EXCEPT !.stats.ironMined = @ + 1]
                      ELSE [w1 EXCEPT !.stats.copperMined = @ + 1]
          IN [w |-> w2,
              ev |-> [s.ev EXCEPT !.ores = @ + 1, !.emitters = @ \cup {p}]]
        ELSE [w |-> [w EXCEPT !.tiles[p].building.progress = progress],
              ev |-> [s.ev EXCEPT !.blocked = @ \cup {p}]]
      ELSE [s EXCEPT !.w.tiles[p].building.progress = progress]

\* Mutant: a depleted tile keeps its ore terrain.
mineBranch_KeepTerrain(s, x, y) ==
  LET w == s.w
      p == <<x, y>>
      tile == w.tiles[p]
      building == tile.building
  IN
  IF tile.terrain = "empty" THEN s
  ELSE IF tile.resource <= 0 THEN s
  ELSE
    LET progress == building.progress + 1
        n == stepInDir(x, y, building.dir)
    IN
    IF progress >= MINE_TICKS
      THEN IF canPlaceItem(w, n[1], n[2])
        THEN
          LET terrain == tile.terrain
              oreType == IF terrain = "iron" THEN "iron-ore" ELSE "copper-ore"
              resource == tile.resource - 1
              w1 == [w EXCEPT !.items[n] = oreType,
                              !.tiles[p].building.progress = 0,
                              !.tiles[p].resource = IF resource <= 0 THEN 0 ELSE resource,
                              !.tiles[p].terrain = @]
              w2 == IF terrain = "iron"
                      THEN [w1 EXCEPT !.stats.ironMined = @ + 1]
                      ELSE [w1 EXCEPT !.stats.copperMined = @ + 1]
          IN [w |-> w2,
              ev |-> [s.ev EXCEPT !.ores = @ + 1, !.emitters = @ \cup {p}]]
        ELSE [w |-> [w EXCEPT !.tiles[p].building.progress = progress],
              ev |-> [s.ev EXCEPT !.blocked = @ \cup {p}]]
      ELSE [s EXCEPT !.w.tiles[p].building.progress = progress]

\* Mutant: an emission leaves the deposit as it was.
mineBranch_FreeOre(s, x, y) ==
  LET w == s.w
      p == <<x, y>>
      tile == w.tiles[p]
      building == tile.building
  IN
  IF tile.terrain = "empty" THEN s
  ELSE IF tile.resource <= 0 THEN s
  ELSE
    LET progress == building.progress + 1
        n == stepInDir(x, y, building.dir)
    IN
    IF progress >= MINE_TICKS
      THEN IF canPlaceItem(w, n[1], n[2])
        THEN
          LET terrain == tile.terrain
              oreType == IF terrain = "iron" THEN "iron-ore" ELSE "copper-ore"
              resource == tile.resource
              w1 == [w EXCEPT !.items[n] = oreType,
                              !.tiles[p].building.progress = 0,
                              !.tiles[p].resource = IF resource <= 0 THEN 0 ELSE resource,
                              !.tiles[p].terrain = IF resource <= 0 THEN "empty" ELSE @]
              w2 == IF terrain = "iron"
                      THEN [w1 EXCEPT !.stats.ironMined = @ + 1]
                      ELSE [w1 EXCEPT !.stats.copperMined = @ + 1]
          IN [w |-> w2,
              ev |-> [s.ev EXCEPT !.ores = @ + 1, !.emitters = @ \cup {p}]]
        ELSE [w |-> [w EXCEPT !.tiles[p].building.progress = progress],
              ev |-> [s.ev EXCEPT !.blocked = @ \cup {p}]]
      ELSE [s EXCEPT !.w.tiles[p].building.progress = progress]

mineBranch(s, x, y) ==
  LET w == s.w
      p == <<x, y>>
      tile == w.tiles[p]
      building == tile.building
  IN
  IF tile.terrain = "empty" THEN s
  ELSE IF tile.resource <= 0 THEN s
  ELSE
    LET progress == building.progress + 1
        n == stepInDir(x, y, building.dir)
    IN
    IF progress >= MINE_TICKS
      THEN IF canPlaceItem(w, n[1], n[2])
        THEN
          LET terrain == tile.terrain
              oreType == IF terrain = "iron" THEN "iron-ore" ELSE "copper-ore"
              resource == tile.resource - 1
              w1 == [w EXCEPT !.items[n] = oreType,
                              !.tiles[p].building.progress = 0,
                              !.tiles[p].resource = IF resource <= 0 THEN 0 ELSE resource,
                              !.tiles[p].terrain = IF resource <= 0 THEN "empty" ELSE @]
              w2 == IF terrain = "iron"
                      THEN [w1 EXCEPT !.stats.ironMined = @ + 1]
                      ELSE [w1 EXCEPT !.stats.copperMined = @ + 1]
          IN [w |-> w2,
              ev |-> [s.ev EXCEPT !.ores = @ + 1, !.emitters = @ \cup {p}]]
        ELSE [w |-> [w EXCEPT !.tiles[p].building.progress = progress],
              ev |-> [s.ev EXCEPT !.blocked = @ \cup {p}]]
      ELSE [s EXCEPT !.w.tiles[p].building.progress = progress]

\* lines 319-330: an idle furnace takes the first neighbouring ore.
furnacePickup(w, x, y) ==
  LET p == <<x, y>>
      building == w.tiles[p].building
  IN
  IF building.buffer["iron-ore"] = 0 /\ building.buffer["copper-ore"] = 0
    THEN LET neighbor == findNeighborItemByTypes(w, x, y, {"iron-ore", "copper-ore"}) IN
         IF neighbor # NoNeighbor
           THEN LET oreType == w.items[neighbor] IN
                [w EXCEPT !.items[neighbor] = NoItem,
                          !.tiles[p].building.buffer[oreType] = @ + 1,
                          !.tiles[p].building.progress = 0]
           ELSE w
    ELSE w

\* Mutant: the plate counters are not advanced.
furnaceBranch_NoStat(s, x, y) ==
  LET p == <<x, y>>
      w == furnacePickup(s.w, x, y)
      building == w.tiles[p].building
      oreType == IF building.buffer["iron-ore"] > 0 THEN "iron-ore"
                 ELSE IF building.buffer["copper-ore"] > 0 THEN "copper-ore"
                 ELSE "none"
  IN
  IF oreType # "none"
    THEN
      LET progress == building.progress + 1
          n == stepInDir(x, y, building.dir)
      IN
      IF progress >= FURNACE_TICKS
        THEN IF canPlaceItem(w, n[1], n[2])
          THEN
            LET plateType == IF oreType = "iron-ore" THEN "iron-plate" ELSE "copper-plate"
                w1 == [w EXCEPT !.items[n] = plateType,
                                !.tiles[p].building.buffer[oreType] = @ - 1,
                                !.tiles[p].building.progress = 0]
                w2 == w1
            IN [w |-> w2,
                ev |-> [s.ev EXCEPT !.plates = @ + 1, !.emitters = @ \cup {p}]]
          ELSE [w |-> [w EXCEPT !.tiles[p].building.progress = progress],
                ev |-> [s.ev EXCEPT !.blocked = @ \cup {p}]]
        ELSE [w |-> [w EXCEPT !.tiles[p].building.progress = progress], ev |-> s.ev]
    ELSE [w |-> w, ev |-> s.ev]

furnaceBranch(s, x, y) ==
  LET p == <<x, y>>
      w == furnacePickup(s.w, x, y)
      building == w.tiles[p].building
      oreType == IF building.buffer["iron-ore"] > 0 THEN "iron-ore"
                 ELSE IF building.buffer["copper-ore"] > 0 THEN "copper-ore"
                 ELSE "none"
  IN
  IF oreType # "none"
    THEN
      LET progress == building.progress + 1
          n == stepInDir(x, y, building.dir)
      IN
      IF progress >= FURNACE_TICKS
        THEN IF canPlaceItem(w, n[1], n[2])
          THEN
            LET plateType == IF oreType = "iron-ore" THEN "iron-plate" ELSE "copper-plate"
                w1 == [w EXCEPT !.items[n] = plateType,
                                !.tiles[p].building.buffer[oreType] = @ - 1,
                                !.tiles[p].building.progress = 0]
                w2 == IF plateType = "iron-plate"
                        THEN [w1 EXCEPT !.stats.ironPlates = @ + 1]
                        ELSE [w1 EXCEPT !.stats.copperPlates = @ + 1]
            IN [w |-> w2,
                ev |-> [s.ev EXCEPT !.plates = @ + 1, !.emitters = @ \cup {p}]]
          ELSE [w |-> [w EXCEPT !.tiles[p].building.progress = progress],
                ev |-> [s.ev EXCEPT !.blocked = @ \cup {p}]]
        ELSE [w |-> [w EXCEPT !.tiles[p].building.progress = progress], ev |-> s.ev]
    ELSE [w |-> w, ev |-> s.ev]

\* lines 359-367 and 384-392: a machine short of input takes the first
\* neighbouring item of its input kind.
machinePickup(w, x, y, kind, threshold) ==
  LET p == <<x, y>>
      building == w.tiles[p].building
  IN
  IF building.buffer[kind] < threshold
    THEN LET neighbor == findNeighborItem(w, x, y, kind) IN
         IF neighbor # NoNeighbor
           THEN [w EXCEPT !.items[neighbor] = NoItem,
                          !.tiles[p].building.buffer[kind] = @ + 1,
                          !.tiles[p].building.progress = 0]
           ELSE w
    ELSE w

\* Mutant: the cycle test asks for the exact cycle length (= for >=).
assemblerBranch_ExactCycle(s, x, y) ==
  LET p == <<x, y>>
      w == machinePickup(s.w, x, y, "iron-plate", 2)
      building == w.tiles[p].building
  IN
  IF building.buffer["iron-plate"] >= 2
    THEN
      LET progress == building.progress + 1
          n == stepInDir(x, y, building.dir)
      IN
      IF progress = ASSEMBLER_TICKS
        THEN IF canPlaceItem(w, n[1], n[2])
          THEN [w |-> [w EXCEPT !.items[n] = "gear",
                                !.tiles[p].building.buffer["iron-plate"] = @ - 2,
                                !.tiles[p].building.progress = 0,
                                !.stats.gearsCrafted = @ + 1],
                ev |-> [s.ev EXCEPT !.gears = @ + 1, !.emitters = @ \cup {p}]]
          ELSE [w |-> [w EXCEPT !.tiles[p].building.progress = progress],
                ev |-> [s.ev EXCEPT !.blocked = @ \cup {p}]]
        ELSE [w |-> [w EXCEPT !.tiles[p].building.progress = progress], ev |-> s.ev]
    ELSE [w |-> w, ev |-> s.ev]

assemblerBranch(s, x, y) ==
  LET p == <<x, y>>
      w == machinePickup(s.w, x, y, "iron-plate", 2)
      building == w.tiles[p].building
  IN
  IF building.buffer["iron-plate"] >= 2
    THEN
      LET progress == building.progress + 1
          n == stepInDir(x, y, building.dir)
      IN
      IF progress >= ASSEMBLER_TICKS
        THEN IF canPlaceItem(w, n[1], n[2])
          THEN [w |-> [w EXCEPT !.items[n] = "gear",
                                !.tiles[p].building.buffer["iron-plate"] = @ - 2,
                                !.tiles[p].building.progress = 0,
                                !.stats.gearsCrafted = @ + 1],
                ev |-> [s.ev EXCEPT !.gears = @ + 1, !.emitters = @ \cup {p}]]
          ELSE [w |-> [w EXCEPT !.tiles[p].building.progress = progress],
                ev |-> [s.ev EXCEPT !.blocked = @ \cup {p}]]
        ELSE [w |-> [w EXCEPT !.tiles[p].building.progress = progress], ev |-> s.ev]
    ELSE [w |-> w, ev |-> s.ev]

\* Mutant: a blocked wire-mill keeps its counter at the cycle length.
wireMillBranch_HoldProgress(s, x, y) ==
  LET p == <<x, y>>
      w == machinePickup(s.w, x, y, "copper-plate", 1)
      building == w.tiles[p].building
  IN
  IF building.buffer["copper-plate"] >= 1
    THEN
      LET progress == building.progress + 1
          n == stepInDir(x, y, building.dir)
      IN
      IF progress >= WIRE_MILL_TICKS
        THEN IF canPlaceItem(w, n[1], n[2])
          THEN [w |-> [w EXCEPT !.items[n] = "wire",
                                !.tiles[p].building.buffer["copper-plate"] = @ - 1,
                                !.tiles[p].building.progress = 0,
                                !.stats.wiresCrafted = @ + 1],
                ev |-> [s.ev EXCEPT !.wires = @ + 1, !.emitters = @ \cup {p}]]
          ELSE [w |-> [w EXCEPT !.tiles[p].building.progress = WIRE_MILL_TICKS],
                ev |-> [s.ev EXCEPT !.blocked = @ \cup {p}]]
        ELSE [w |-> [w EXCEPT !.tiles[p].building.progress = progress], ev |-> s.ev]
    ELSE [w |-> w, ev |-> s.ev]

wireMillBranch(s, x, y) ==
  LET p == <<x, y>>
      w == machinePickup(s.w, x, y, "copper-plate", 1)
      building == w.tiles[p].building
  IN
  IF building.buffer["copper-plate"] >= 1
    THEN
      LET progress == building.progress + 1
          n == stepInDir(x, y, building.dir)
      IN
      IF progress >= WIRE_MILL_TICKS
        THEN IF canPlaceItem(w, n[1], n[2])
          THEN [w |-> [w EXCEPT !.items[n] = "wire",
                                !.tiles[p].building.buffer["copper-plate"] = @ - 1,
                                !.tiles[p].building.progress = 0,
                                !.stats.wiresCrafted = @ + 1],
                ev |-> [s.ev EXCEPT !.wires = @ + 1, !.emitters = @ \cup {p}]]
          ELSE [w |-> [w EXCEPT !.tiles[p].building.progress = progress],
                ev |-> [s.ev EXCEPT !.blocked = @ \cup {p}]]
        ELSE [w |-> [w EXCEPT !.tiles[p].building.progress = progress], ev |-> s.ev]
    ELSE [w |-> w, ev |-> s.ev]

\* Mutant: the hub removes the item without crediting it.
hubBranch_NoCredit(s, x, y) ==
  LET w == s.w
      neighbor == findNeighborItemAny(w, x, y)
  IN
  IF neighbor # NoNeighbor
    THEN [s EXCEPT !.w.items[neighbor] = NoItem]
    ELSE s

hubBranch(s, x, y) ==
  LET w == s.w
      neighbor == findNeighborItemAny(w, x, y)
  IN
  IF neighbor # NoNeighbor
    THEN LET item == w.items[neighbor] IN
         [s EXCEPT !.w.items[neighbor] = NoItem,
                   !.w.inventory[item] = @ + 1]
    ELSE s

productionTile(s, x, y) ==
  LET type == s.w.tiles[<<x, y>>].building.type IN
  CASE type = "mine"      -> mineBranch(s, x, y)
    [] type = "furnace"   -> furnaceBranch(s, x, y)
    [] type = "assembler" -> assemblerBranch(s, x, y)
    [] type = "wire-mill" -> wireMillBranch(s, x, y)
    [] type = "hub"       -> hubBranch(s, x, y)
    [] OTHER              -> s

\* The row-major scan (y outer, x inner) over tiles i .. n-1.
RECURSIVE productionRange(_, _, _)
productionRange(s, i, n) ==
  IF i >= n THEN s
  ELSE productionRange(productionTile(s, i % s.w.width, i \div s.w.width), i + 1, n)

production(next) ==
  productionRange([w |-> next, ev |-> NoEvents], 0, next.width * next.height)

(***************************************************************************)
(* stepGame, belt transport.  The scan state t is [w, moved]: w.items is   *)
(* the grid left by the production phase, which the scan only reads;       *)
(* moved starts as its copy and becomes the new item grid.                 *)
(***************************************************************************)
\* Mutant: a belt move does not look whether the destination is taken.
transportTile_Overwrite(t, x, y) ==
  LET w == t.w
      p == <<x, y>>
      item == w.items[p]
      building == w.tiles[p].building
      n == stepInDir(x, y, building.dir)
  IN
  IF item = NoItem \/ building.type # "belt" \/ ~inBounds(w, n[1], n[2]) THEN t
  ELSE IF w.tiles[n].building.type \in {"none", "belt"}
    THEN [t EXCEPT !.moved[n] = item, !.moved[p] = NoItem]
    ELSE t

\* Mutant: a belt move leaves a copy of the item on the source tile.
transportTile_KeepSource(t, x, y) ==
  LET w == t.w
      p == <<x, y>>
      item == w.items[p]
      building == w.tiles[p].building
      n == stepInDir(x, y, building.dir)
  IN
  IF item = NoItem \/ building.type # "belt" \/ ~inBounds(w, n[1], n[2]) THEN t
  ELSE IF w.tiles[n].building.type \in {"none", "belt"} /\ t.moved[n] = NoItem
    THEN [t EXCEPT !.moved[n] = item]
    ELSE t

\* Mutant: a delivery to a chest or hub leaves the item on the belt.
transportTile_KeepDelivered(t, x, y) ==
  LET w == t.w
      p == <<x, y>>
      item == w.items[p]
      building == w.tiles[p].building
  IN
  IF item = NoItem THEN t
  ELSE IF building.type # "belt" THEN t
  ELSE
    LET n == stepInDir(x, y, building.dir) IN
    IF ~inBounds(w, n[1], n[2]) THEN t
    ELSE
      LET destinationBuilding == w.tiles[n].building IN
      IF destinationBuilding.type # "none" /\ destinationBuilding.type # "belt"
        THEN
          IF destinationBuilding.type = "chest" \/ destinationBuilding.type = "hub"
            THEN [t EXCEPT !.w.inventory[item] = @ + 1]
          ELSE IF destinationBuilding.type = "furnace"
            THEN IF /\ (item = "iron-ore" \/ item = "copper-ore")
                    /\ destinationBuilding.buffer["iron-ore"] = 0
                    /\ destinationBuilding.buffer["copper-ore"] = 0
                   THEN [t EXCEPT !.w.tiles[n].building.buffer[item] = @ + 1,
                                  !.w.tiles[n].building.progress = 0,
                                  !.moved[p] = NoItem]
                   ELSE t
          ELSE IF destinationBuilding.type = "assembler"
            THEN IF item = "iron-plate" /\ destinationBuilding.buffer["iron-plate"] < 2
                   THEN [t EXCEPT !.w.tiles[n].building.buffer["iron-plate"] = @ + 1,
                                  !.w.tiles[n].building.progress = 0,
                                  !.moved[p] = NoItem]
                   ELSE t
          ELSE IF destinationBuilding.type = "wire-mill"
            THEN IF item = "copper-plate" /\ destinationBuilding.buffer["copper-plate"] < 1
                   THEN [t EXCEPT !.w.tiles[n].building.buffer["copper-plate"] = @ + 1,
                                  !.w.tiles[n].building.progress = 0,
                                  !.moved[p] = NoItem]
                   ELSE t
          ELSE t
        ELSE IF t.moved[n] = NoItem
          THEN [t EXCEPT !.moved[n] = item, !.moved[p] = NoItem]
          ELSE t

\* Mutant: the assembler's input gate lets a third plate in (<= for <).
transportTile_LooseGate(t, x, y) ==
  LET w == t.w
      p == <<x, y>>
      item == w.items[p]
      building == w.tiles[p].building
  IN
  IF item = NoItem THEN t
  ELSE IF building.type # "belt" THEN t
  ELSE
    LET n == stepInDir(x, y, building.dir) IN
    IF ~inBounds(w, n[1], n[2]) THEN t
    ELSE
      LET destinationBuilding == w.tiles[n].building IN
      IF destinationBuilding.type # "none" /\ destinationBuilding.type # "belt"
        THEN
          IF destinationBuilding.type = "chest" \/ destinationBuilding.type = "hub"
            THEN [t EXCEPT !.w.inventory[item] = @ + 1, !.moved[p] = NoItem]
          ELSE IF destinationBuilding.type = "furnace"
            THEN IF /\ (item = "iron-ore" \/ item = "copper-ore")
                    /\ destinationBuilding.buffer["iron-ore"] = 0
                    /\ destinationBuilding.buffer["copper-ore"] = 0
                   THEN [t EXCEPT !.w.tiles[n].building.buffer[item] = @ + 1,
                                  !.w.tiles[n].building.progress = 0,
                                  !.moved[p] = NoItem]
                   ELSE t
          ELSE IF destinationBuilding.type = "assembler"
            THEN IF item = "iron-plate" /\ destinationBuilding.buffer["iron-plate"] <= 2
                   THEN [t EXCEPT !.w.tiles[n].building.buffer["iron-plate"] = @ + 1,
                                  !.w.tiles[n].building.progress = 0,
                                  !.moved[p] = NoItem]
                   ELSE t
          ELSE IF destinationBuilding.type = "wire-mill"
            THEN IF item = "copper-plate" /\ destinationBuilding.buffer["copper-plate"] < 1
                   THEN [t EXCEPT !.w.tiles[n].building.buffer["copper-plate"] = @ + 1,
                                  !.w.tiles[n].building.progress = 0,
                                  !.moved[p] = NoItem]
                   ELSE t
          ELSE t
        ELSE IF t.moved[n] = NoItem
          THEN [t EXCEPT !.moved[n] = item, !.moved[p] = NoItem]
          ELSE t

\* Mutant: a mine takes belt items in as a chest does.
transportTile_MineSink(t, x, y) ==
  LET w == t.w
      p == <<x, y>>
      item == w.items[p]
      building == w.tiles[p].building
  IN
  IF item = NoItem THEN t
  ELSE IF building.type # "belt" THEN t
  ELSE
    LET n == stepInDir(x, y, building.dir) IN
    IF ~inBounds(w, n[1], n[2]) THEN t
    ELSE
      LET destinationBuilding == w.tiles[n].building IN
      IF destinationBuilding.type # "none" /\ destinationBuilding.type # "belt"
        THEN
          IF destinationBuilding.type \in {"chest", "hub", "mine"}
            THEN [t EXCEPT !.w.inventory[item] = @ + 1, !.moved[p] = NoItem]
          ELSE IF destinationBuilding.type = "furnace"
            THEN IF /\ (item = "iron-ore" \/ item = "copper-ore")
                    /\ destinationBuilding.buffer["iron-ore"] = 0
                    /\ destinationBuilding.buffer["copper-ore"] = 0
                   THEN [t EXCEPT !.w.tiles[n].building.buffer[item] = @ + 1,
                                  !.w.tiles[n].building.progress = 0,
                                  !.moved[p] = NoItem]
                   ELSE t
          ELSE IF destinationBuilding.type = "assembler"
            THEN IF item = "iron-plate" /\ destinationBuilding.buffer["iron-plate"] < 2
                   THEN [t EXCEPT !.w.tiles[n].building.buffer["iron-plate"] = @ + 1,
                                  !.w.tiles[n].building.progress = 0,
                                  !.moved[p] = NoItem]
                   ELSE t
          ELSE IF destinationBuilding.type = "wire-mill"
            THEN IF item = "copper-plate" /\ destinationBuilding.buffer["copper-plate"] < 1
                   THEN [t EXCEPT !.w.tiles[n].building.buffer["copper-plate"] = @ + 1,
                                  !.w.tiles[n].building.progress = 0,
                                  !.moved[p] = NoItem]
                   ELSE t
          ELSE t
        ELSE IF t.moved[n] = NoItem
          THEN [t EXCEPT !.moved[n] = item, !.moved[p] = NoItem]
          ELSE t

\* Mutant: a chest takes nothing from a belt.
transportTile_ChestRefuses(t, x, y) ==
  LET w == t.w
      p == <<x, y>>
      item == w.items[p]
      building == w.tiles[p].building
  IN
  IF item = NoItem THEN t
  ELSE IF building.type # "belt" THEN t
  ELSE
    LET n == stepInDir(x, y, building.dir) IN
    IF ~inBounds(w, n[1], n[2]) THEN t
    ELSE
      LET destinationBuilding == w.tiles[n].building IN
      IF destinationBuilding.type # "none" /\ destinationBuilding.type # "belt"
        THEN
          IF destinationBuilding.type = "hub"
            THEN [t EXCEPT !.w.inventory[item] = @ + 1, !.moved[p] = NoItem]
          ELSE IF destinationBuilding.type = "furnace"
            THEN IF /\ (item = "iron-ore" \/ item = "copper-ore")
                    /\ destinationBuilding.buffer["iron-ore"] = 0
                    /\ destinationBuilding.buffer["copper-ore"] = 0
                   THEN [t EXCEPT !.w.tiles[n].building.buffer[item] = @ + 1,
                                  !.w.tiles[n].building.progress = 0,
                                  !.moved[p] = NoItem]
                   ELSE t
          ELSE IF destinationBuilding.type = "assembler"
            THEN IF item = "iron-plate" /\ destinationBuilding.buffer["iron-plate"] < 2
                   THEN [t EXCEPT !.w.tiles[n].building.buffer["iron-plate"] = @ + 1,
                                  !.w.tiles[n].building.progress = 0,
                                  !.moved[p] = NoItem]
                   ELSE t
          ELSE IF destinationBuilding.type = "wire-mill"
            THEN IF item = "copper-plate" /\ destinationBuilding.buffer["copper-plate"] < 1
                   THEN [t EXCEPT !.w.tiles[n].building.buffer["copper-plate"] = @ + 1,
                                  !.w.tiles[n].building.progress = 0,
                                  !.moved[p] = NoItem]
                   ELSE t
          ELSE t
        ELSE IF t.moved[n] = NoItem
          THEN [t EXCEPT !.moved[n] = item, !.moved[p] = NoItem]
          ELSE t

transportTile(t, x, y) ==
  LET w == t.w
      p == <<x, y>>
      item == w.items[p]
      building == w.tiles[p].building
  IN
  IF item = NoItem THEN t
  ELSE IF building.type # "belt" THEN t
  ELSE
    LET n == stepInDir(x, y, building.dir) IN
    IF ~inBounds(w, n[1], n[2]) THEN t
    ELSE
      LET destinationBuilding == w.tiles[n].building IN
      IF destinationBuilding.type # "none" /\ destinationBuilding.type # "belt"
        THEN
          IF destinationBuilding.type = "chest" \/ destinationBuilding.type = "hub"
            THEN [t EXCEPT !.w.inventory[item] = @ + 1, !.moved[p] = NoItem]
          ELSE IF destinationBuilding.type = "furnace"
            THEN IF /\ (item = "iron-ore" \/ item = "copper-ore")
                    /\ destinationBuilding.buffer["iron-ore"] = 0
                    /\ destinationBuilding.buffer["copper-ore"] = 0
                   THEN [t EXCEPT !.w.tiles[n].building.buffer[item] = @ + 1,
                                  !.w.tiles[n].building.progress = 0,
                                  !.moved[p] = NoItem]
                   ELSE t
          ELSE IF destinationBuilding.type = "assembler"
            THEN IF item = "iron-plate" /\ destinationBuilding.buffer["iron-plate"] < 2
                   THEN [t EXCEPT !.w.tiles[n].building.buffer["iron-plate"] = @ + 1,
                                  !.w.tiles[n].building.progress = 0,
                                  !.moved[p] = NoItem]
                   ELSE t
          ELSE IF destinationBuilding.type = "wire-mill"
            THEN IF item = "copper-plate" /\ destinationBuilding.buffer["copper-plate"] < 1
                   THEN [t EXCEPT !.w.tiles[n].building.buffer["copper-plate"] = @ + 1,
                                  !.w.tiles[n].building.progress = 0,
                                  !.moved[p] = NoItem]
                   ELSE t
          ELSE t
        ELSE IF t.moved[n] = NoItem
          THEN [t EXCEPT !.moved[n] = item, !.moved[p] = NoItem]
          ELSE t

RECURSIVE transportRange(_, _, _)
transportRange(t, i, n) ==
  IF i >= n THEN t
  ELSE transportRange(transportTile(t, i % t.w.width, i \div t.w.width), i + 1, n)

transport(w) ==
  LET t == transportRange([w |-> w, moved |-> cloneItemGrid(w.items)], 0, w.width * w.height)
  IN [t.w EXCEPT !.items = t.moved]

\* Mutant: the tick counter is not advanced.
afterProduction_NoTick(state) == production(state).w

\* The world after the production phase of stepGame (lines 281-420).
afterProduction(state) == production([cloneState(state).next EXCEPT !.tick = @ + 1]).w

\* The events of the production phase of stepGame(state).
stepEvents(state) == production([cloneState(state).next EXCEPT !.tick = @ + 1]).ev

\* Mutant: the belts move before the buildings produce.
stepGame_TransportFirst(state) == afterProduction(transport(state))

stepGame(state) == transport(afterProduction(state))

(***************************************************************************)
(* Worlds.                                                                 *)
(***************************************************************************)
ZeroStats == [ironMined |-> 0, copperMined |-> 0, ironPlates |-> 0,
              copperPlates |-> 0, gearsCrafted |-> 0, wiresCrafted |-> 0]

StatNames == {"ironMined", "copperMined", "ironPlates", "copperPlates",
              "gearsCrafted", "wiresCrafted"}

StarterInventory ==
  [k \in ItemType |->
     CASE k = "iron-plate" -> 16 [] k = "copper-plate" -> 8 [] k = "gear" -> 4 [] OTHER -> 0]

\* createInitialState before the ore patches are scattered.
blankWorld(width, height) ==
  [width |-> width, height |-> height, tick |-> 0,
   tiles |-> [p \in (0 .. width - 1) \X (0 .. height - 1) |->
                [terrain |-> "empty", resource |-> 0, building |-> NoBuilding]],
   items |-> [p \in (0 .. width - 1) \X (0 .. height - 1) |-> NoItem],
   inventory |-> StarterInventory,
   stats |-> ZeroStats]

\* seedOre's effect on one tile: the terrain and a positive resource.
withOre(w, p, terrain, resource) ==
  [w EXCEPT !.tiles[p].terrain = terrain, !.tiles[p].resource = resource]

withBuilding(w, p, type, dir, progress, buffer) ==
  [w EXCEPT !.tiles[p].building =
     [type |-> type, dir |-> dir, progress |-> progress, buffer |-> buffer]]

withItem(w, p, kind) == [w EXCEPT !.items[p] = kind]

bufferOf(kind, n) == [k \in ItemType |-> IF k = kind THEN n ELSE 0]

(***************************************************************************)
(* normalizeState.  A raw snapshot is what a saved document may hold: a    *)
(* record in which any field can be missing (undefined), tags can be       *)
(* legacy or unknown ones, and buffers, the inventory and the stats are    *)
(* partial records that may carry legacy keys.  null is RawNull.           *)
(***************************************************************************)
RawNull == [isNull |-> TRUE]

\* The outcome of a call that throws (reading a property of undefined).
TypeError == [error |-> "TypeError"]

\* A record without fields.
NoFields == [f \in {} |-> f]

\* The field f of r, copied as it is: missing when r has none.
passField(r, f) == IF f \in DOMAIN r THEN f :> r[f] ELSE NoFields

normalizeTerrain(tile) ==
  IF "terrain" \notin DOMAIN tile THEN NoFields
  ELSE IF tile.terrain = "ore" THEN [terrain |-> "iron"]
  ELSE [terrain |-> tile.terrain]

normalizeBuilding(building) == passField(building, "type")

\* <<>> stands for the null result.
normalizeItemType(item) ==
  IF "type" \notin DOMAIN item THEN <<>>
  ELSE CASE item.type = "ore" -> <<"iron-ore">>
         [] item.type = "plate" -> <<"iron-plate">>
         [] item.type = "gear" -> <<"gear">>
         [] item.type \in {"iron-ore", "copper-ore", "iron-plate", "copper-plate", "wire"}
              -> <<item.type>>
         [] OTHER -> <<>>

\* a ?? b ?? 0 over the keys of a partial record.
firstOf(r, key, legacy) ==
  IF key \in DOMAIN r THEN r[key]
  ELSE IF legacy \in DOMAIN r THEN r[legacy]
  ELSE 0

\* Mutant: the counts are added onto a copy of the given buffer.
normalizeBuffer_Merge(buffer) ==
  LET next == [k \in ItemType |-> IF k \in DOMAIN buffer THEN buffer[k] ELSE 0] IN
  [k \in ItemType |->
     CASE k = "iron-ore" -> next[k] + firstOf(buffer, "iron-ore", "ore")
       [] k = "iron-plate" -> next[k] + firstOf(buffer, "iron-plate", "plate")
       [] OTHER -> next[k] + firstOf(buffer, k, k)]

normalizeBuffer(buffer) ==
  LET next == createBuffer IN
  [k \in ItemType |->
     CASE k = "iron-ore" -> next[k] + firstOf(buffer, "iron-ore", "ore")
       [] k = "iron-plate" -> next[k] + firstOf(buffer, "iron-plate", "plate")
       [] OTHER -> next[k] + firstOf(buffer, k, k)]

normalizeInventory(seed) == normalizeBuffer(seed)

normalizeState(state) ==
  IF "tiles" \notin DOMAIN state \/ "items" \notin DOMAIN state THEN TypeError
  ELSE
    LET bufferDefaults == createBuffer
        stats == IF "stats" \in DOMAIN state THEN state.stats ELSE NoFields
        tileOf(tile) ==
          normalizeTerrain(tile)
          @@ [resource |->
                IF "resource" \in DOMAIN tile THEN tile.resource
                ELSE IF "terrain" \in DOMAIN tile /\ tile.terrain = "empty" THEN 0 ELSE 40,
              building |->
                IF "building" \in DOMAIN tile /\ tile.building # RawNull
                  THEN normalizeBuilding(tile.building)
                       @@ passField(tile.building, "dir")
                       @@ [progress |-> IF "progress" \in DOMAIN tile.building
                                          THEN tile.building.progress ELSE 0,
                           buffer |-> normalizeBuffer(IF "buffer" \in DOMAIN tile.building
                                                        THEN tile.building.buffer
                                                        ELSE bufferDefaults)]
                  ELSE RawNull]
        itemOf(item) ==
          IF item = RawNull THEN RawNull
          ELSE LET type == normalizeItemType(item) IN
               IF type # <<>> THEN [type |-> type[1]] ELSE RawNull
    IN passField(state, "width")
       @@ passField(state, "height")
       @@ [tick |-> IF "tick" \in DOMAIN state THEN state.tick ELSE 0,
           tiles |-> [p \in DOMAIN state.tiles |-> tileOf(state.tiles[p])],
           items |-> [p \in DOMAIN state.items |-> itemOf(state.items[p])],
           inventory |-> normalizeInventory(IF "inventory" \in DOMAIN state
                                              THEN state.inventory ELSE NoFields),
           stats |-> [ironMined |-> firstOf(stats, "ironMined", "oreMined"),
                      copperMined |-> firstOf(stats, "copperMined", "copperMined"),
                      ironPlates |-> firstOf(stats, "ironPlates", "platesSmelted"),
                      copperPlates |-> firstOf(stats, "copperPlates", "copperPlates"),
                      gearsCrafted |-> firstOf(stats, "gearsCrafted", "gearsCrafted"),
                      wiresCrafted |-> firstOf(stats, "wiresCrafted", "wiresCrafted")]]

(***************************************************************************)
(* The backend: the games table and the mutations upsertMyGame and         *)
(* resetMyGame.  A mutation runs as a transaction: it reads, and when it   *)
(* ends its writes are applied only if what it read is still in the table; *)
(* otherwise it is run again from the start.                               *)
(***************************************************************************)
\* The sessions that call the backend: two of alice, one of bob, and one
\* that is not signed in.
Callers == {"alice-1", "alice-2", "bob-1", "guest"}

NoIdentity == "none"

getUserIdentity(c) ==
  CASE c \in {"alice-1", "alice-2"} -> "alice"
    [] c = "bob-1" -> "bob"
    [] OTHER -> NoIdentity

Mutations == {"upsertMyGame", "resetMyGame"}

\* The states that are sent to be saved.
SavedStates == {"state-a", "state-b"}

\* No document (null from unique()).
NoId == 0

Idle == [pc |-> "idle"]

NoCall == [caller |-> "guest", outcome |-> "none", before |-> {}]

Unauthenticated == "Unauthenticated"

\* Mutant: a caller without identity is served as an anonymous user.
requireUser_Anonymous(c) == "anonymous"

\* The userId, or the error thrown.
requireUser(c) ==
  LET identity == getUserIdentity(c) IN
  IF identity = NoIdentity THEN Unauthenticated ELSE identity

\* query("games").withIndex("by_userId", q => q.eq("userId", userId))
byUserId(table, userId) == {d \in table : d.userId = userId}

newId(table) == 1 + Cardinality(table)

\* Mutant: the state is always inserted as a new document.
writeSlot_AlwaysInsert(table, existing, userId, state) ==
  table \cup {[id |-> newId(table), userId |-> userId, state |-> state]}

\* Lines 31-36 and 50-55: patch the existing document, or insert one.
writeSlot(table, existing, userId, state) ==
  IF existing # NoId
    THEN {IF d.id = existing THEN [d EXCEPT !.state = state] ELSE d : d \in table}
    ELSE table \cup {[id |-> newId(table), userId |-> userId, state |-> state]}

\* A session calls one of the two mutations; their handlers are the same
\* line for line, so a running call does not record which one it is.
Invoke(c, fn, state) ==
  /\ calls[c] = Idle
  /\ fn \in Mutations
  /\ calls' = [calls EXCEPT ![c] = [pc |-> "start", state |-> state,
                                    existing |-> NoId, seen |-> {}]]
  /\ UNCHANGED <<games, lastCall>>
  /\ UNCHANGED <<simVars, saveVars, loadVars>>

\* requireUser and the query: the call fails without identity (and when
\* unique() finds two documents); otherwise it has read the caller's slot.
Query(c) ==
  /\ calls[c].pc = "start"
  /\ LET userId == requireUser(c)
         rows == byUserId(games, userId)
     IN IF userId = Unauthenticated \/ Cardinality(rows) > 1
          THEN /\ calls' = [calls EXCEPT ![c] = Idle]
               /\ lastCall' = [caller |-> c,
                               outcome |-> IF userId = Unauthenticated
                                             THEN Unauthenticated ELSE "NotUnique",
                               before |-> games]
          ELSE /\ calls' = [calls EXCEPT ![c].pc = "queried",
                                         ![c].existing =
                                            IF rows = {} THEN NoId
                                            ELSE (CHOOSE d \in rows : TRUE).id,
                                         ![c].seen = rows]
               /\ UNCHANGED lastCall
  /\ UNCHANGED games
  /\ UNCHANGED <<simVars, saveVars, loadVars>>

\* The transaction ends with what it read unchanged: its write is applied.
Commit(c) ==
  /\ calls[c].pc = "queried"
  /\ byUserId(games, requireUser(c)) = calls[c].seen
  /\ games' = writeSlot(games, calls[c].existing, requireUser(c), calls[c].state)
  /\ calls' = [calls EXCEPT ![c] = Idle]
  /\ lastCall' = [caller |-> c, outcome |-> "ok", before |-> games]
  /\ UNCHANGED <<simVars, saveVars, loadVars>>

\* What it read was changed by another call meanwhile: it is run again.
Retry(c) ==
  /\ calls[c].pc = "queried"
  /\ byUserId(games, requireUser(c)) # calls[c].seen
  /\ calls' = [calls EXCEPT ![c].pc = "start", ![c].existing = NoId, ![c].seen = {}]
  /\ UNCHANGED <<games, lastCall>>
  /\ UNCHANGED <<simVars, saveVars, loadVars>>

(***************************************************************************)
(* The operations as actions.                                              *)
(***************************************************************************)
NoWatch == [pos |-> NoNeighbor, age |-> 0]

InitOp == [kind |-> "init", x |-> 0, y |-> 0, tool |-> "erase", dir |-> "up"]

\* No saved snapshot (gameDoc is null).
NoDoc == [absent |-> TRUE]

\* The session after the load effect (setGameState) and the effect that
\* follows it (latestStateRef.current = gameState; dirtyRef.current = true).
Boot(w, wt, doc) ==
  /\ world = w
  /\ pre = w
  /\ op = InitOp
  /\ ev = NoEvents
  /\ placed = 0
  /\ stepped = 0
  /\ watch = wt
  /\ held = w
  /\ latestStateRef = w
  /\ dirtyRef = TRUE
  /\ inflight = <<>>
  /\ effectPending = FALSE
  /\ games = {}
  /\ calls = [c \in Callers |-> Idle]
  /\ lastCall = NoCall
  /\ gameDoc = doc
  /\ loaded = NoDoc

Start(w, wt) == Boot(w, wt, NoDoc)

\* One tick of the 250 ms interval: setGameState(stepGame(prev)).
Step(limit) ==
  /\ world.tick < limit
  /\ world' = stepGame(world)
  /\ pre' = world
  /\ op' = [InitOp EXCEPT !.kind = "step"]
  /\ ev' = stepEvents(world)
  /\ placed' = placed
  /\ stepped' = stepped + 1
  /\ watch' = IF watch.pos = NoNeighbor THEN watch ELSE [watch EXCEPT !.age = @ + 1]
  /\ held' = callerView(world, stepGame(world), afterProduction(world).items, TRUE)
  /\ effectPending' = TRUE
  /\ UNCHANGED <<saveVars, cloudVars, loadVars>>

\* One placement or erase command.  A mine that is really placed becomes the
\* building under observation; any other command ends the observation.
Place(x, y, tool, dir) ==
  /\ placed < MaxPlace
  /\ world' = placeBuilding(world, x, y, tool, dir)
  /\ pre' = world
  /\ op' = [kind |-> "place", x |-> x, y |-> y, tool |-> tool, dir |-> dir]
  /\ ev' = NoEvents
  /\ placed' = placed + 1
  /\ stepped' = stepped
  /\ watch' = IF tool = "mine" /\ inBounds(world, x, y) /\ canAffordBuild(world, tool)
                THEN [pos |-> <<x, y>>, age |-> 0]
                ELSE NoWatch
  /\ held' = LET next == placeBuilding(world, x, y, tool, dir)
             IN callerView(world, next, next.items, FALSE)
  /\ effectPending' = (effectPending \/ (inBounds(world, x, y)
                                           /\ (tool = "erase" \/ canAffordBuild(world, tool))))
  /\ UNCHANGED <<saveVars, cloudVars, loadVars>>

(***************************************************************************)
(* Spec: placement commands on a small running factory.                    *)
(***************************************************************************)
TightInventory ==
  [k \in ItemType |->
     CASE k = "iron-plate" -> 4 [] k = "copper-plate" -> 2 [] k = "gear" -> 2 [] OTHER -> 0]

Inventories == {StarterInventory, TightInventory, createBuffer}

\* A furnace at work, a belt carrying a plate, a loose gear and two ore tiles.
PlaceWorld ==
  LET w0 == blankWorld(Width, Height)
      w1 == withOre(withOre(w0, <<0, 1>>, "iron", 1), <<1, 0>>, "copper", 2)
      w2 == withBuilding(w1, <<1, 1>>, "furnace", "right", 2, bufferOf("iron-ore", 1))
      w3 == withItem(withBuilding(w2, <<2, 0>>, "belt", "left", 0, createBuffer),
                     <<2, 0>>, "iron-plate")
  IN withItem(w3, <<0, 0>>, "gear")

Init ==
  \E inv \in Inventories :
    Start([PlaceWorld EXCEPT !.inventory = inv], NoWatch)

Next ==
  \/ Step(MaxTick)
  \/ \E x \in -1 .. world.width, y \in -1 .. world.height, tool \in Tool, dir \in Direction :
       Place(x, y, tool, dir)

Spec == Init /\ [][Next]_vars

(***************************************************************************)
(* Claims about placeBuilding and the tick counter, under Spec.            *)
(***************************************************************************)
OpPos == <<op.x, op.y>>

IsPlace == op.kind = "place"

IsStep == op.kind = "step"

\* C3: a placement that is out of bounds, or names a building type that
\* canAffordBuild refuses, returns a world equal to the input world:
\* inventory, tiles, ground items, tick and stats are all unchanged.
C3_InvalidPlacementRejected ==
  (/\ IsPlace
   /\ \/ ~inBounds(pre, op.x, op.y)
      \/ (op.tool \in BuildingType /\ ~canAffordBuild(pre, op.tool)))
  => /\ world.inventory = pre.inventory
     /\ world.tiles = pre.tiles
     /\ world.items = pre.items
     /\ world.tick = pre.tick
     /\ world.stats = pre.stats
     /\ world = pre

\* An unaffordable machine was aimed at an in-bounds tile that holds a ground
\* item, while some stock was there to be spent.
C3_Witness ==
  /\ IsPlace
  /\ inBounds(pre, op.x, op.y)
  /\ op.tool = "hub"
  /\ ~canAffordBuild(pre, op.tool)
  /\ pre.inventory["iron-plate"] > 0
  /\ pre.items[OpPos] # NoItem
  /\ world = pre

\* C4: stepGame advances tick by exactly 1 and keeps width, height and the
\* domains of both grids; placeBuilding keeps tick; so tick counts the steps.
C4_TickMonotonicity ==
  /\ IsStep =>
       /\ world.tick = pre.tick + 1
       /\ world.width = pre.width
       /\ world.height = pre.height
       /\ DOMAIN world.tiles = Positions(pre)
       /\ DOMAIN world.items = Positions(pre)
  /\ IsPlace => world.tick = pre.tick
  /\ world.tick = stepped

\* A step, a placement that changed the world, and a step again.
C4_Witness ==
  /\ IsStep
  /\ placed = 1
  /\ world.tick = 2
  /\ world.tiles # pre.tiles

\* The build cost table as the claim states it.
StatedCost(type) ==
  [k \in ItemType |->
     CASE type = "belt"      /\ k = "iron-plate"   -> 1
       [] type = "mine"      /\ k = "iron-plate"   -> 4
       [] type = "mine"      /\ k = "gear"         -> 2
       [] type = "furnace"   /\ k = "iron-plate"   -> 3
       [] type = "furnace"   /\ k = "copper-plate" -> 2
       [] type = "assembler" /\ k = "iron-plate"   -> 4
       [] type = "assembler" /\ k = "gear"         -> 4
       [] type = "wire-mill" /\ k = "iron-plate"   -> 2
       [] type = "wire-mill" /\ k = "copper-plate" -> 3
       [] type = "hub"       /\ k = "iron-plate"   -> 6
       [] type = "hub"       /\ k = "copper-plate" -> 4
       [] type = "hub"       /\ k = "gear"         -> 2
       [] type = "chest"     /\ k = "iron-plate"   -> 2
       [] OTHER -> 0]

PlaceSucceeds ==
  /\ IsPlace
  /\ inBounds(pre, op.x, op.y)
  /\ op.tool \in BuildingType
  /\ canAffordBuild(pre, op.tool)

\* C9: a successful placement subtracts exactly the stated build cost, puts
\* at (x,y) a building of the given type and direction with progress 0 and an
\* all-zero buffer in place of whatever stood there, and removes the ground
\* item at (x,y) iff the placed type is not belt.
C9_PlacementEffect ==
  PlaceSucceeds =>
    /\ \A k \in ItemType :
         world.inventory[k] = pre.inventory[k] - StatedCost(op.tool)[k]
    /\ world.tiles[OpPos].building =
         [type |-> op.tool, dir |-> op.dir, progress |-> 0,
          buffer |-> [k \in ItemType |-> 0]]
    /\ world.items[OpPos] = IF op.tool # "belt" THEN NoItem ELSE pre.items[OpPos]

\* A mine (iron-plate and gear cost) replaced the furnace that held an ore.
C9_Witness ==
  /\ PlaceSucceeds
  /\ op.tool = "mine"
  /\ pre.tiles[OpPos].building.type = "furnace"
  /\ pre.tiles[OpPos].building.buffer["iron-ore"] = 1
  /\ world.tiles[OpPos].building.type = "mine"

\* C10: erase at an in-bounds tile succeeds whatever the inventory: the tile
\* has no building afterwards, and the ground item there, the inventory, tick,
\* stats, terrain, resource and every other tile are unchanged; with no
\* building on the tile the result equals the input world.
C10_EraseEffect ==
  (IsPlace /\ op.tool = "erase" /\ inBounds(pre, op.x, op.y)) =>
    /\ world.tiles[OpPos].building = NoBuilding
    /\ world.tiles[OpPos].terrain = pre.tiles[OpPos].terrain
    /\ world.tiles[OpPos].resource = pre.tiles[OpPos].resource
    /\ \A p \in Positions(pre) \ {OpPos} : world.tiles[p] = pre.tiles[p]
    /\ world.items = pre.items
    /\ world.inventory = pre.inventory
    /\ world.tick = pre.tick
    /\ world.stats = pre.stats
    /\ world.width = pre.width /\ world.height = pre.height
    /\ pre.tiles[OpPos].building = NoBuilding => world = pre

\* With an empty stockpile, the belt carrying a plate was erased.
C10_Witness ==
  /\ IsPlace /\ op.tool = "erase" /\ inBounds(pre, op.x, op.y)
  /\ pre.inventory = createBuffer
  /\ pre.tiles[OpPos].building.type = "belt"
  /\ pre.items[OpPos] = "iron-plate"
  /\ world.tiles[OpPos].building = NoBuilding

(***************************************************************************)
(* SpecPlant: a plant whose four machines are about to emit, with          *)
(* placement commands between the ticks.                                   *)
(***************************************************************************)
\* Every machine is `off` ticks away from emitting onto a free tile.
PlantWorld(off, metal) ==
  LET w0 == withOre(blankWorld(Width, Height), <<0, 0>>, metal, 2)
      w1 == withBuilding(w0, <<0, 0>>, "mine", "down", MINE_TICKS - off, createBuffer)
      w2 == withBuilding(w1, <<1, 0>>, "furnace", "down", FURNACE_TICKS - off,
                         bufferOf(IF metal = "iron" THEN "iron-ore" ELSE "copper-ore", 1))
      w3 == withBuilding(w2, <<2, 0>>, "assembler", "down", ASSEMBLER_TICKS - off,
                         bufferOf("iron-plate", 2))
  IN withBuilding(w3, <<0, 2>>, "wire-mill", "right", WIRE_MILL_TICKS - off,
                  bufferOf("copper-plate", 1))

InitPlant ==
  \E off \in 1 .. MaxTick, metal \in {"iron", "copper"},
     inv \in {StarterInventory, createBuffer} :
    Start([PlantWorld(off, metal) EXCEPT !.inventory = inv], NoWatch)

\* Where the commands go: out of bounds, onto the mine, and onto the tile
\* that the furnace emits to.
PlantSpots == {<<-1, 0>>, <<0, 0>>, <<1, 1>>}

NextPlant ==
  \/ Step(MaxTick)
  \/ \E p \in PlantSpots, tool \in Tool : Place(p[1], p[2], tool, "up")

SpecPlant == InitPlant /\ [][NextPlant]_vars

Features ==
  {[type |-> "none", dir |-> "up", item |-> i] : i \in {NoItem, "gear"}}
  \cup {[type |-> "belt", dir |-> d, item |-> i] : d \in Direction, i \in {NoItem, "wire"}}
  \cup {[type |-> t, dir |-> "up", item |-> NoItem] :
          t \in {"chest", "hub", "furnace", "assembler", "wire-mill", "mine"}}

withFeature(w, p, f) ==
  withItem(IF f.type = "none" THEN w
           ELSE withBuilding(w, p, f.type, f.dir, 0, createBuffer),
           p, f.item)

withBelt(w, p, dir, kind) ==
  withItem(withBuilding(w, p, "belt", dir, 0, createBuffer), p, kind)

BeltWorld(pA, dA, pB, dB, f) ==
  LET w0 == blankWorld(Width, Height)
      w1 == withBelt(withBelt(w0, pA, dA, "iron-ore"), pB, dB, "iron-plate")
      n == stepInDir(pB[1], pB[2], dB)
  IN IF inBounds(w0, n[1], n[2]) /\ n # pA THEN withFeature(w1, n, f) ELSE w1

InitBelt ==
  \E pA \in (0 .. Width - 1) \X (0 .. Height - 1), dA \in Direction,
     pB \in (0 .. Width - 1) \X (0 .. Height - 1), dB \in Direction, f \in Features :
    /\ pA # pB
    /\ Start(BeltWorld(pA, dA, pB, dB, f), NoWatch)

NextBelt == Step(BeltTicks)

SpecBelt == InitBelt /\ [][NextBelt]_vars

(***************************************************************************)
(* Claims about belt transport, under SpecBelt.                            *)
(***************************************************************************)
\* The grid that the transport phase of the last step started from.
Mid == afterProduction(pre)

Ahead(w, p) == stepInDir(p[1], p[2], w.tiles[p].building.dir)

BeltItems(w) ==
  {p \in Positions(w) : w.tiles[p].building.type = "belt" /\ w.items[p] # NoItem}

RowMajor(w, p) == p[2] * w.width + p[1]

\* A tile a belt item can move onto: in bounds, no building or a belt, no item.
FreeTile(w, n) ==
  /\ inBounds(w, n[1], n[2])
  /\ w.tiles[n].building.type \in {"none", "belt"}
  /\ w.items[n] = NoItem

Targeting(w, n) == {q \in BeltItems(w) : Ahead(w, q) = n}

\* C2 as stated: of two loaded belts that face the same tile, one step moves
\* one item away and leaves the other on the tile it occupied.
C2_Original ==
  IsStep =>
    \A p \in BeltItems(pre), q \in BeltItems(pre) :
      (p # q /\ Ahead(pre, p) = Ahead(pre, q) /\ inBounds(pre, Ahead(pre, p)[1], Ahead(pre, p)[2]))
      => \/ (world.items[p] # pre.items[p] /\ world.items[q] = pre.items[q])
         \/ (world.items[q] # pre.items[q] /\ world.items[p] = pre.items[p])

\* C2 amended: when two belts hold an item after the production phase and face
\* the same tile, which carries no non-belt building, holds no item after the
\* production phase and is faced by no third loaded belt, then the item scanned
\* first in row-major order is on that tile after the step and the other one
\* is still on its own tile.
C2_JamCorrectness ==
  IsStep =>
    \A p \in BeltItems(Mid), q \in BeltItems(Mid) :
      (/\ RowMajor(Mid, p) < RowMajor(Mid, q)
       /\ Ahead(Mid, p) = Ahead(Mid, q)
       /\ FreeTile(Mid, Ahead(Mid, p))
       /\ Targeting(Mid, Ahead(Mid, p)) = {p, q})
      => /\ world.items[Ahead(Mid, p)] = Mid.items[p]
         /\ world.items[p] # Mid.items[p]
         /\ world.items[q] = Mid.items[q]
         /\ world.items[q] = pre.items[q]

\* Two loaded belts met on a free tile: the first one moved, the other stayed.
C2_Witness ==
  /\ IsStep
  /\ \E p \in BeltItems(Mid), q \in BeltItems(Mid) :
       /\ RowMajor(Mid, p) < RowMajor(Mid, q)
       /\ Ahead(Mid, p) = Ahead(Mid, q)
       /\ FreeTile(Mid, Ahead(Mid, p))
       /\ Targeting(Mid, Ahead(Mid, p)) = {p, q}
       /\ world.items[Ahead(Mid, p)] = "iron-ore"
       /\ world.items[q] = "iron-plate"

\* The case of C7: an item on a belt when transport starts, whose forward tile
\* is free then and is faced by no other loaded belt.
LoneMover(p) ==
  /\ p \in BeltItems(Mid)
  /\ FreeTile(Mid, Ahead(Mid, p))
  /\ Targeting(Mid, Ahead(Mid, p)) = {p}

\* C7 as stated: such an item is on the forward tile after the step, with its
\* kind unchanged, and its source tile is empty.
C7_Original ==
  IsStep =>
    \A p \in Positions(pre) :
      LoneMover(p) =>
        /\ world.items[Ahead(Mid, p)] = Mid.items[p]
        /\ world.items[p] = NoItem

\* C7 amended: such an item is on the forward tile after the step, with its
\* kind unchanged, and its source tile is empty unless the item of a loaded
\* belt facing the source tile moved onto it in the same step.
C7_LoneItemAdvances ==
  IsStep =>
    \A p \in Positions(pre) :
      LoneMover(p) =>
        /\ world.items[Ahead(Mid, p)] = Mid.items[p]
        /\ Mid.items[p] = pre.items[p]
        /\ \/ world.items[p] = NoItem
           \/ \E q \in Targeting(Mid, p) :
                /\ RowMajor(Mid, q) > RowMajor(Mid, p)
                /\ world.items[p] = Mid.items[q]
                /\ world.items[q] # Mid.items[q]

\* The plate moved one tile along its belt and left an empty tile behind.
C7_Witness ==
  /\ IsStep
  /\ \E p \in Positions(pre) :
       /\ LoneMover(p)
       /\ Mid.items[p] = "iron-plate"
       /\ world.items[Ahead(Mid, p)] = "iron-plate"
       /\ world.items[p] = NoItem

\* C8 as stated: when two items sit on consecutive belts facing the same way
\* and the tile ahead of the leading one is free and faced by no other loaded
\* belt, one step moves both items one tile forward, in every direction.
C8_ChainAdvances ==
  IsStep =>
    \A p \in BeltItems(Mid), q \in BeltItems(Mid) :
      (/\ Ahead(Mid, p) = q
       /\ Mid.tiles[p].building.dir = Mid.tiles[q].building.dir
       /\ FreeTile(Mid, Ahead(Mid, q))
       /\ Targeting(Mid, Ahead(Mid, q)) = {q}
       /\ Targeting(Mid, q) = {p})
      => /\ world.items[Ahead(Mid, q)] = Mid.items[q]
         /\ world.items[q] = Mid.items[p]

(***************************************************************************)
(* SpecFactory: ticks on worlds with one machine M, idle or about to emit, *)
(* and a belt B on a neighbouring tile, empty or carrying an item.         *)
(***************************************************************************)
Neighbors(w, p) ==
  {n \in Positions(w) : \E d \in Direction : n = stepInDir(p[1], p[2], d)}

\* The states a machine is in when idle and one tick before it emits.
MachineStates ==
  {[type |-> "mine", progress |-> g, buffer |-> createBuffer] : g \in {0, MINE_TICKS - 1}}
  \cup {[type |-> "furnace", progress |-> 0, buffer |-> createBuffer],
        [type |-> "furnace", progress |-> FURNACE_TICKS - 1, buffer |-> bufferOf("iron-ore", 1)],
        [type |-> "assembler", progress |-> 0, buffer |-> bufferOf("iron-plate", 1)],
        [type |-> "assembler", progress |-> ASSEMBLER_TICKS - 1, buffer |-> bufferOf("iron-plate", 2)],
        [type |-> "wire-mill", progress |-> 0, buffer |-> createBuffer],
        [type |-> "wire-mill", progress |-> WIRE_MILL_TICKS - 1, buffer |-> bufferOf("copper-plate", 1)],
        [type |-> "hub", progress |-> 0, buffer |-> createBuffer],
        [type |-> "chest", progress |-> 0, buffer |-> createBuffer]}

BeltLoads == {NoItem, "iron-ore", "copper-ore", "iron-plate", "copper-plate"}

FactoryWorld(pM, dM, m, pB, dB, k) ==
  LET w0 == withOre(blankWorld(Width, Height), pM, "iron", 1)
      w1 == withBuilding(w0, pM, m.type, dM, m.progress, m.buffer)
  IN withBelt(w1, pB, dB, k)

InitFactory ==
  \E pM \in (0 .. Width - 1) \X (0 .. Height - 1), dM \in Direction, m \in MachineStates,
     dB \in Direction, k \in BeltLoads :
    \E pB \in Neighbors(blankWorld(Width, Height), pM) :
      Start(FactoryWorld(pM, dM, m, pB, dB, k), NoWatch)

NextFactory == Step(FactoryTicks)

SpecFactory == InitFactory /\ [][NextFactory]_vars

(***************************************************************************)
(* Claims about item conservation, under SpecFactory.                      *)
(***************************************************************************)
RECURSIVE SumOver(_, _)
SumOver(f, S) ==
  IF S = {} THEN 0
  ELSE LET e == CHOOSE e \in S : TRUE IN f[e] + SumOver(f, S \ {e})

GroundCount(w) == Cardinality({p \in Positions(w) : w.items[p] # NoItem})

BufferCount(w) ==
  SumOver([p \in Positions(w) |-> SumOver(w.tiles[p].building.buffer, ItemType)],
          Positions(w))

\* Ground items + all building buffers + inventory.
TotalItems(w) == GroundCount(w) + BufferCount(w) + SumOver(w.inventory, ItemType)

\* C1 as stated: one step changes the total item count only by +1 per ore
\* that a mine emits in that step.
C1_Original ==
  IsStep => TotalItems(world) = TotalItems(pre) + ev.ores

\* C1 amended: one step changes the total item count by +1 per ore that a
\* mine emits and by -1 per gear that an assembler emits (two iron-plates
\* leave its buffer for one gear); nothing else changes the total.
C1_Conservation ==
  IsStep => TotalItems(world) = TotalItems(pre) + ev.ores - ev.gears

\* An assembler turned its two plates into a gear: the total went down by 1.
C1_Witness ==
  /\ IsStep
  /\ ev.gears = 1
  /\ TotalItems(world) = TotalItems(pre) - 1
  /\ pre.items # world.items

(***************************************************************************)
(* SpecMine: a mine has just been placed on a striped ore field on which   *)
(* another mine or a belt may already stand, and the game ticks.           *)
(***************************************************************************)
\* Iron (1 unit) where x+y is even, copper (2 units) where it is odd, and no
\* ore at the origin.
OreField ==
  LET w0 == blankWorld(Width, Height) IN
  [w0 EXCEPT !.tiles =
     [p \in Positions(w0) |->
        IF p = <<0, 0>> THEN w0.tiles[p]
        ELSE IF (p[1] + p[2]) % 2 = 0
          THEN [w0.tiles[p] EXCEPT !.terrain = "iron", !.resource = 1]
          ELSE [w0.tiles[p] EXCEPT !.terrain = "copper", !.resource = 2]]]

MineWorlds ==
  {OreField}
  \cup {withBuilding(OreField, p, "mine", d, g, createBuffer) :
          p \in Positions(OreField), d \in Direction, g \in {0, MINE_TICKS - 1}}
  \cup {withBelt(OreField, p, d, k) :
          p \in Positions(OreField), d \in Direction, k \in {NoItem, "gear"}}

InitMine ==
  \E w \in MineWorlds, x \in 0 .. Width - 1, y \in 0 .. Height - 1, dir \in Direction :
    Start(placeBuilding(w, x, y, "mine", dir), [pos |-> <<x, y>>, age |-> 0])

NextMine == Step(MINE_TICKS + Slack)

SpecMine == InitMine /\ [][NextMine]_vars

(***************************************************************************)
(* SpecFurnace: a furnace that has just received one ore, with a loaded    *)
(* belt or a mine about to emit somewhere around it, and the game ticks.   *)
(***************************************************************************)
FurnaceWorlds(pF, dF, ore) ==
  LET w == withBuilding(OreField, pF, "furnace", dF, 0, bufferOf(ore, 1)) IN
  {w}
  \cup {withBuilding(w, p, "mine", d, MINE_TICKS - 1, createBuffer) :
          p \in Positions(w) \ {pF}, d \in Direction}
  \cup {withBelt(w, p, d, k) :
          p \in Positions(w) \ {pF}, d \in Direction, k \in {"iron-ore", "gear"}}

InitFurnace ==
  \E pF \in (0 .. Width - 1) \X (0 .. Height - 1), dF \in Direction,
     ore \in {"iron-ore", "copper-ore"} :
    \E w \in FurnaceWorlds(pF, dF, ore) :
      Start(w, [pos |-> pF, age |-> 0])

NextFurnace == Step(FURNACE_TICKS + Slack)

SpecFurnace == InitFurnace /\ [][NextFurnace]_vars

(***************************************************************************)
(* Claims about production timing, under SpecMine and SpecFurnace.         *)
(***************************************************************************)
\* The world of the last step as the building at p found it when the
\* production scan reached it, and as the building left it.
BeforeScan(p) ==
  productionRange([w |-> [pre EXCEPT !.tick = @ + 1], ev |-> NoEvents],
                  0, RowMajor(pre, p)).w

AfterScan(p) ==
  productionRange([w |-> [pre EXCEPT !.tick = @ + 1], ev |-> NoEvents],
                  0, RowMajor(pre, p) + 1).w

Watching(type) ==
  /\ IsStep
  /\ watch.pos # NoNeighbor
  /\ pre.tiles[watch.pos].building.type = type

\* C5: a freshly placed mine on an ore tile with resource r >= 1 emits nothing
\* in its first 3 steps (progress counts 1, 2, 3; resource and terrain stay);
\* in the 4th step, its forward tile being in bounds, without a non-belt
\* building and without a ground item when the mine is scanned, it puts one
\* ore of the terrain's kind on the forward tile, resource becomes r-1, the
\* matching mined stat goes up by 1, progress is 0 again, and with r = 1 the
\* terrain becomes empty with resource 0.
C5_MineCycle ==
  (/\ Watching("mine")
   /\ pre.tiles[watch.pos].terrain # "empty"
   /\ pre.tiles[watch.pos].resource >= 1)
  => LET p == watch.pos
         tile == pre.tiles[p]
         n == Ahead(pre, p)
         b == BeforeScan(p)
         a == AfterScan(p)
     IN
     /\ watch.age < MINE_TICKS =>
          /\ p \notin ev.emitters
          /\ world.tiles[p].building.progress = watch.age
          /\ world.tiles[p].resource = tile.resource
          /\ world.tiles[p].terrain = tile.terrain
          /\ a.items = b.items
          /\ a.stats = b.stats
     /\ (watch.age = MINE_TICKS /\ canPlaceItem(b, n[1], n[2])) =>
          /\ p \in ev.emitters
          /\ a.items = [b.items EXCEPT ![n] =
                          IF tile.terrain = "iron" THEN "iron-ore" ELSE "copper-ore"]
          /\ a.stats = IF tile.terrain = "iron"
                         THEN [b.stats EXCEPT !.ironMined = @ + 1]
                         ELSE [b.stats EXCEPT !.copperMined = @ + 1]
          /\ world.tiles[p].resource = tile.resource - 1
          /\ world.tiles[p].building.progress = 0
          /\ tile.resource = 1 =>
               (world.tiles[p].terrain = "empty" /\ world.tiles[p].resource = 0)
          /\ tile.resource > 1 => world.tiles[p].terrain = tile.terrain

\* The 4th step of a mine placed on a tile with one unit of iron ended: the
\* ore lies ahead of it and the deposit is gone.
C5_Witness ==
  /\ Watching("mine")
  /\ watch.age = MINE_TICKS
  /\ pre.tiles[watch.pos].terrain = "iron"
  /\ pre.tiles[watch.pos].resource = 1
  /\ inBounds(pre, Ahead(pre, watch.pos)[1], Ahead(pre, watch.pos)[2])
  /\ world.items[Ahead(pre, watch.pos)] = "iron-ore"
  /\ world.tiles[watch.pos].terrain = "empty"
  /\ world.stats.ironMined = 1

OreIn(buffer) == buffer["iron-ore"] + buffer["copper-ore"]

\* C6: a furnace with progress 0 holding exactly one ore emits nothing in its
\* first 5 steps (progress counts 1..5, the buffer stays); in the 6th step,
\* its forward tile being legal when the furnace is scanned, it puts the
\* matching plate on the forward tile, takes the ore out of its buffer, sets
\* progress to 0 and advances the matching plate stat by exactly 1.
C6_FurnaceCycle ==
  (Watching("furnace") /\ OreIn(pre.tiles[watch.pos].building.buffer) = 1)
  => LET p == watch.pos
         buffer == pre.tiles[p].building.buffer
         ore == IF buffer["iron-ore"] = 1 THEN "iron-ore" ELSE "copper-ore"
         n == Ahead(pre, p)
         b == BeforeScan(p)
         a == AfterScan(p)
     IN
     /\ watch.age < FURNACE_TICKS =>
          /\ p \notin ev.emitters
          /\ world.tiles[p].building.progress = watch.age
          /\ world.tiles[p].building.buffer = buffer
          /\ a.items = b.items
          /\ a.stats = b.stats
     /\ (watch.age = FURNACE_TICKS /\ canPlaceItem(b, n[1], n[2])) =>
          /\ p \in ev.emitters
          /\ a.items = [b.items EXCEPT ![n] =
                          IF ore = "iron-ore" THEN "iron-plate" ELSE "copper-plate"]
          /\ a.tiles[p].building.buffer = createBuffer
          /\ a.tiles[p].building.progress = 0
          /\ a.stats = IF ore = "iron-ore"
                         THEN [b.stats EXCEPT !.ironPlates = @ + 1]
                         ELSE [b.stats EXCEPT !.copperPlates = @ + 1]
          /\ Mid.tiles[p].building = a.tiles[p].building

\* The 6th step of a furnace that held one copper ore ended: the plate lies
\* ahead of it and its buffer is empty.
C6_Witness ==
  /\ Watching("furnace")
  /\ watch.age = FURNACE_TICKS
  /\ pre.tiles[watch.pos].building.buffer["copper-ore"] = 1
  /\ inBounds(pre, Ahead(pre, watch.pos)[1], Ahead(pre, watch.pos)[2])
  /\ world.items[Ahead(pre, watch.pos)] = "copper-plate"
  /\ world.tiles[watch.pos].building.buffer = createBuffer
  /\ world.stats.copperPlates = 1

(***************************************************************************)
(* SpecStall: a mine, furnace, assembler or wire-mill at the end of its    *)
(* cycle, or already past it, with something or nothing on the tile it     *)
(* faces; the mine stands on live or on dead ground.  The game ticks.      *)
(***************************************************************************)
Producers == {"mine", "furnace", "assembler", "wire-mill"}

CycleOf(type) ==
  CASE type = "mine" -> MINE_TICKS
    [] type = "furnace" -> FURNACE_TICKS
    [] type = "assembler" -> ASSEMBLER_TICKS
    [] type = "wire-mill" -> WIRE_MILL_TICKS

\* The input a machine works on, held in full.
FullBuffers(type) ==
  CASE type = "mine" -> {createBuffer}
    [] type = "furnace" -> {bufferOf("iron-ore", 1), bufferOf("copper-ore", 1)}
    [] type = "assembler" -> {bufferOf("iron-plate", 2)}
    [] type = "wire-mill" -> {bufferOf("copper-plate", 1)}

StallMachines ==
  {[type |-> t, progress |-> g, buffer |-> b] :
     t \in Producers, g \in 2 .. ASSEMBLER_TICKS + 1, b \in UNION {FullBuffers(u) : u \in Producers}}

\* Live ore, exhausted ore and bare ground (terrain, resource).
Grounds == {<<"iron", 2>>, <<"copper", 1>>, <<"empty", 0>>, <<"iron", 0>>, <<"empty", 5>>}

StallWorld(pM, dM, m, g, f) ==
  LET w0 == withOre(blankWorld(Width, Height), pM, g[1], g[2])
      w1 == withBuilding(w0, pM, m.type, dM, m.progress, m.buffer)
      n == stepInDir(pM[1], pM[2], dM)
  IN IF inBounds(w1, n[1], n[2]) THEN withFeature(w1, n, f) ELSE w1

InitStall ==
  \E pM \in (0 .. Width - 1) \X (0 .. Height - 1), dM \in Direction,
     m \in StallMachines, g \in Grounds, f \in Features :
    /\ m.buffer \in FullBuffers(m.type)
    /\ m.progress \in {CycleOf(m.type) - 1, CycleOf(m.type), CycleOf(m.type) + 1}
    /\ m.type # "mine" => g = <<"empty", 0>>
    /\ Start(StallWorld(pM, dM, m, g, f), [pos |-> pM, age |-> 0])

NextStall == Step(StallTicks)

SpecStall == InitStall /\ [][NextStall]_vars

(***************************************************************************)
(* Claims about dead ground, stalls and re-attempts, under SpecStall.      *)
(***************************************************************************)
MinesOf(w) == {p \in Positions(w) : w.tiles[p].building.type = "mine"}

\* C15: a mine on a tile whose terrain is empty or whose resource is 0 does
\* nothing when it is scanned, in any step: no item appears, its progress,
\* the stats and the tile's resource and terrain stay as they are.
C15_DeadMineIdle ==
  IsStep =>
    \A p \in MinesOf(pre) :
      (pre.tiles[p].terrain = "empty" \/ pre.tiles[p].resource = 0) =>
        /\ p \notin ev.emitters
        /\ AfterScan(p) = BeforeScan(p)
        /\ world.tiles[p] = pre.tiles[p]

\* Three steps went by on a mine that had stalled on an exhausted iron tile
\* with a free tile ahead of it.
C15_Witness ==
  /\ Watching("mine")
  /\ stepped = 3
  /\ pre.tiles[watch.pos].terrain = "iron"
  /\ pre.tiles[watch.pos].resource = 0
  /\ pre.tiles[watch.pos].building.progress = MINE_TICKS
  /\ canPlaceItem(pre, Ahead(pre, watch.pos)[1], Ahead(pre, watch.pos)[2])
  /\ world.tiles[watch.pos].building.progress = MINE_TICKS
  /\ world.stats = ZeroStats

\* C18: in a step where a mine on a live ore tile reaches progress >= 4 while
\* its forward tile is out of bounds, carries a non-belt building or holds a
\* ground item, no item is created, the mine's progress is not reset to 0,
\* the tile's resource and terrain are unchanged and no mined stat goes up.
C18_MineStall ==
  IsStep =>
    \A p \in MinesOf(pre) :
      LET b == BeforeScan(p)
          a == AfterScan(p)
          n == Ahead(pre, p)
      IN (/\ b.tiles[p].terrain # "empty"
          /\ b.tiles[p].resource > 0
          /\ b.tiles[p].building.progress + 1 >= MINE_TICKS
          /\ \/ ~inBounds(b, n[1], n[2])
             \/ b.tiles[n].building.type \notin {"none", "belt"}
             \/ b.items[n] # NoItem)
         => /\ a.items = b.items
            /\ a.tiles[p].building.progress # 0
            /\ a.tiles[p].building.progress >= MINE_TICKS
            /\ a.tiles[p].resource = b.tiles[p].resource
            /\ a.tiles[p].terrain = b.tiles[p].terrain
            /\ a.stats = b.stats
            /\ p \notin ev.emitters
            /\ world.tiles[p].building.progress # 0
            /\ world.tiles[p].resource = pre.tiles[p].resource
            /\ world.tiles[p].terrain = pre.tiles[p].terrain

\* A mine on live copper reached its 4th tick facing a tile that holds a
\* gear, and stalled.
C18_Witness ==
  /\ Watching("mine")
  /\ pre.tiles[watch.pos].terrain = "copper"
  /\ pre.tiles[watch.pos].resource = 1
  /\ pre.tiles[watch.pos].building.progress = MINE_TICKS - 1
  /\ inBounds(pre, Ahead(pre, watch.pos)[1], Ahead(pre, watch.pos)[2])
  /\ pre.items[Ahead(pre, watch.pos)] = "gear"
  /\ world.items[Ahead(pre, watch.pos)] = "gear"
  /\ world.tiles[watch.pos].building.progress = MINE_TICKS
  /\ world.tiles[watch.pos].resource = 1
  /\ world.stats = ZeroStats

\* A machine that has what it needs to work.
Ready(w, p) ==
  LET tile == w.tiles[p] IN
  CASE tile.building.type = "mine" -> tile.terrain # "empty" /\ tile.resource > 0
    [] tile.building.type = "furnace" -> OreIn(tile.building.buffer) > 0
    [] tile.building.type = "assembler" -> tile.building.buffer["iron-plate"] >= 2
    [] tile.building.type = "wire-mill" -> tile.building.buffer["copper-plate"] >= 1
    [] OTHER -> FALSE

\* The machines that had reached their cycle length before the last step.
Stalled == {p \in Positions(pre) :
              /\ pre.tiles[p].building.type \in Producers
              /\ pre.tiles[p].building.progress >= CycleOf(pre.tiles[p].building.type)
              /\ Ready(pre, p)}

\* ... and found their forward tile illegal when they were scanned.
Blocked == {p \in Stalled :
              ~canPlaceItem(BeforeScan(p), Ahead(pre, p)[1], Ahead(pre, p)[2])}

\* C19 as stated: a machine that has reached its cycle length and is blocked
\* from emitting has the same progress after the step as before it.
C19_Original ==
  IsStep =>
    \A p \in Blocked :
      world.tiles[p].building.progress = pre.tiles[p].building.progress

\* C19 amended: a machine that has reached its cycle length and is blocked
\* from emitting has its progress advanced by 1 in that step and its buffer
\* untouched: the counter is never reset, so it stays at or above the cycle
\* length for as long as the machine is blocked.
C19_BlockedKeepsCounting ==
  IsStep =>
    \A p \in Blocked :
      /\ AfterScan(p).tiles[p].building.progress = pre.tiles[p].building.progress + 1
      /\ world.tiles[p].building.progress = pre.tiles[p].building.progress + 1
      /\ world.tiles[p].building.progress >= CycleOf(pre.tiles[p].building.type)
      /\ world.tiles[p].building.buffer = pre.tiles[p].building.buffer
      /\ p \notin ev.emitters

\* A wire-mill was blocked for three steps in a row by the chest it faces:
\* its counter went from 5 to 8.
C19_Witness ==
  /\ Watching("wire-mill")
  /\ stepped = 3
  /\ watch.pos \in Blocked
  /\ inBounds(pre, Ahead(pre, watch.pos)[1], Ahead(pre, watch.pos)[2])
  /\ pre.tiles[Ahead(pre, watch.pos)].building.type = "chest"
  /\ pre.tiles[watch.pos].building.progress = WIRE_MILL_TICKS + 2
  /\ world.tiles[watch.pos].building.progress = WIRE_MILL_TICKS + 3

\* What a machine puts on the ground.
ProductOf(w, p) ==
  LET tile == w.tiles[p] IN
  CASE tile.building.type = "mine" ->
         IF tile.terrain = "iron" THEN "iron-ore" ELSE "copper-ore"
    [] tile.building.type = "furnace" ->
         IF tile.building.buffer["iron-ore"] > 0 THEN "iron-plate" ELSE "copper-plate"
    [] tile.building.type = "assembler" -> "gear"
    [] tile.building.type = "wire-mill" -> "wire"

\* C20: a mine, furnace, assembler or wire-mill that is stalled with its
\* progress at or above the cycle length (a processor still holding its
\* input) emits in the first step in which its forward tile is legal when the
\* machine is scanned: the product lies on the forward tile and the counter
\* is back at 0, with no further waiting.
C20_EmitsWhenCleared ==
  IsStep =>
    \A p \in Stalled \ Blocked :
      LET n == Ahead(pre, p) IN
      /\ p \in ev.emitters
      /\ BeforeScan(p).items[n] = NoItem
      /\ AfterScan(p).items[n] = ProductOf(pre, p)
      /\ AfterScan(p).tiles[p].building.progress = 0

\* An assembler was blocked in the first step by the wire on the belt ahead;
\* the belt carried the wire off, and the second step put the gear there.
C20_Witness ==
  /\ Watching("assembler")
  /\ stepped = 2
  /\ watch.pos \in Stalled \ Blocked
  /\ pre.tiles[watch.pos].building.progress = ASSEMBLER_TICKS
  /\ pre.stats = ZeroStats
  /\ pre.tiles[Ahead(pre, watch.pos)].building.type = "belt"
  /\ world.items[Ahead(pre, watch.pos)] = "gear"
  /\ world.stats.gearsCrafted = 1

(***************************************************************************)
(* SpecGames: sessions call upsertMyGame and resetMyGame at any time.      *)
(***************************************************************************)
InitGames == Start(blankWorld(Width, Height), NoWatch)

NextGames ==
  \E c \in Callers :
    \/ \E fn \in Mutations, state \in SavedStates : Invoke(c, fn, state)
    \/ Query(c)
    \/ Commit(c)
    \/ Retry(c)

SpecGames == InitGames /\ [][NextGames]_vars

(***************************************************************************)
(* Claims about the save slots, under SpecGames.                           *)
(***************************************************************************)
\* C16: after any interleaving of upsertMyGame and resetMyGame calls the
\* games table holds at most one document per userId; a call leaves every
\* document of another user as it was; a call without an authenticated
\* identity ends with an error and changes no document, and no document is
\* ever stored for it.
C16_SingleSaveSlot ==
  /\ \A d1 \in games, d2 \in games : d1.userId = d2.userId => d1 = d2
  /\ \A d \in games : d.userId \in {"alice", "bob"}
  /\ lastCall.outcome = "ok" =>
       /\ getUserIdentity(lastCall.caller) # NoIdentity
       /\ \A u \in {"alice", "bob"} \ {getUserIdentity(lastCall.caller)} :
            byUserId(games, u) = byUserId(lastCall.before, u)
  /\ getUserIdentity(lastCall.caller) = NoIdentity =>
       (lastCall.outcome \in {"none", Unauthenticated} /\ games = lastCall.before)
  /\ lastCall.outcome # "NotUnique"

\* Both sessions of alice had read an empty slot; one inserted, the other was
\* run again and patched the same document, while bob's slot stayed as it was.
C16_Witness ==
  /\ lastCall.outcome = "ok"
  /\ lastCall.caller = "alice-2"
  /\ \E d \in lastCall.before : d.userId = "alice" /\ d.state = "state-a"
  /\ \E d \in games : d.userId = "alice" /\ d.state = "state-b"
  /\ \E d \in games : d.userId = "bob"
  /\ Cardinality(games) = 2

(***************************************************************************)
(* SpecSave: the session of a signed-in user.  The game ticks and takes    *)
(* placement commands, or rests; the effect on gameState marks it dirty;   *)
(* every 5 s the autosave sends latestStateRef when dirty; a save that has *)
(* been answered has stored its state and clears the dirty mark.           *)
(***************************************************************************)
\* The signed-in session.
Me == "alice-1"

\* useEffect on [gameState]: latestStateRef.current = gameState; dirty.
DirtyEffect ==
  /\ effectPending
  /\ latestStateRef' = world
  /\ dirtyRef' = TRUE
  /\ effectPending' = FALSE
  /\ UNCHANGED <<world, pre, op, ev, placed, stepped, watch, held>>
  /\ UNCHANGED <<inflight, cloudVars, loadVars>>

\* The 5 s interval callback up to its await: nothing when not dirty, else
\* saveGame({state: latestStateRef.current}) is sent.
AutosaveRun ==
  /\ Len(inflight) < MaxInflight
  /\ inflight' = IF dirtyRef THEN Append(inflight, latestStateRef) ELSE inflight
  /\ UNCHANGED <<latestStateRef, dirtyRef>>
  /\ UNCHANGED <<simVars, cloudVars, loadVars>>

\* upsertMyGame has stored the oldest state that was sent and the awaited
\* call returns: dirtyRef.current = false.
SaveAnswered ==
  /\ inflight # <<>>
  /\ LET userId == requireUser(Me)
         rows == byUserId(games, userId)
         existing == IF rows = {} THEN NoId ELSE (CHOOSE d \in rows : TRUE).id
     IN games' = writeSlot(games, existing, userId, Head(inflight))
  /\ inflight' = Tail(inflight)
  /\ dirtyRef' = FALSE
  /\ UNCHANGED <<latestStateRef, calls, lastCall>>
  /\ UNCHANGED <<simVars, loadVars>>

InitSave == Start(blankWorld(Width, Height), NoWatch)

NextSave ==
  \/ Step(MaxTick)
  \/ \E tool \in Tool : Place(0, 0, tool, "up")
  \/ DirtyEffect
  \/ AutosaveRun
  \/ SaveAnswered

SpecSave == InitSave /\ [][NextSave]_vars

(***************************************************************************)
(* Claims about the autosave, under SpecSave.                              *)
(***************************************************************************)
\* The states saved for the signed-in user.
SavedFor(c) == {d.state : d \in byUserId(games, getUserIdentity(c))}

\* Nothing is left for the autosave to do: no effect is pending, no save is
\* in flight and the dirty mark is off, so no later run sends anything
\* unless the game state changes again.
AtRest == ~effectPending /\ inflight = <<>> /\ ~dirtyRef

\* C17 as stated: whenever the local state has changed, also while a save
\* was in flight, and the session comes to rest, the latest state has been
\* sent: the saved state equals the local state.
C17_AutosaveKeepsLatest ==
  AtRest => SavedFor(Me) = {world}

(***************************************************************************)
(* SpecLoad: a session loads a saved snapshot through normalizeState; the  *)
(* autosave writes the loaded state back and the next session loads that.  *)
(***************************************************************************)
\* The records that have the field f with one of the values, or lack it.
optField(f, values) == {NoFields} \cup {f :> v : v \in values}

RawBuffers ==
  {[ore |-> 2],
   ("iron-ore" :> 1) @@ [ore |-> 2, plate |-> 1],
   ("iron-plate" :> 2) @@ ("copper-plate" :> 1) @@ [gear |-> 4, wire |-> 1]}

RawBuildings ==
  {t @@ d @@ g @@ b :
     t \in optField("type", {"mine", "turret"}),
     d \in optField("dir", {"left"}),
     g \in optField("progress", {3, -2}),
     b \in optField("buffer", RawBuffers)}

RawTiles ==
  {t @@ r @@ b :
     t \in optField("terrain", {"empty", "iron", "copper", "ore", "lava"}),
     r \in optField("resource", {0, 7, -1}),
     b \in optField("building", {RawNull} \cup RawBuildings)}

RawItems ==
  {RawNull, NoFields} \cup {[type |-> t] : t \in {"ore", "plate", "gear", "wire", "coal"}}

\* What a snapshot holds besides its grids: nothing, legacy fields, current
\* fields, or both at once.
RawRest ==
  {NoFields,
   [width |-> 2, height |-> 1, tick |-> 5, inventory |-> [plate |-> 3, gear |-> 1],
    stats |-> [oreMined |-> 4, platesSmelted |-> 2]],
   [width |-> 2, height |-> 1, tick |-> 9, inventory |-> StarterInventory,
    stats |-> [ZeroStats EXCEPT !.copperMined = 3, !.wiresCrafted = 1]],
   [width |-> 2, height |-> 1, inventory |-> ("iron-plate" :> 1) @@ [plate |-> 9],
    stats |-> [ironMined |-> 1, oreMined |-> 5, copperPlates |-> 2]]}

\* A row of two cells: the first one varies, the second is a copper tile
\* saved without its resource.
RawSnapshots ==
  {rest @@ [tiles |-> (<<0, 0>> :> tile) @@ (<<1, 0>> :> [terrain |-> "copper"]),
            items |-> (<<0, 0>> :> item) @@ (<<1, 0>> :> RawNull)] :
     rest \in RawRest, tile \in RawTiles, item \in RawItems}
  \cup {rest @@ [items |-> (<<0, 0>> :> RawNull)] : rest \in RawRest}
  \cup {rest @@ [tiles |-> (<<0, 0>> :> [terrain |-> "iron", resource |-> 7])] : rest \in RawRest}

\* The load effect: setGameState(normalizeState(gameDoc.state)).
LoadGame ==
  /\ gameDoc # NoDoc
  /\ loaded = NoDoc
  /\ loaded' = normalizeState(gameDoc)
  /\ op' = [InitOp EXCEPT !.kind = "load"]
  /\ UNCHANGED <<world, pre, ev, placed, stepped, watch, held, effectPending>>
  /\ UNCHANGED <<saveVars, cloudVars, gameDoc>>

\* The autosave stores the loaded state as it is and a new session begins.
NextSession ==
  /\ loaded # NoDoc
  /\ loaded # TypeError
  /\ gameDoc' = loaded
  /\ loaded' = NoDoc
  /\ op' = [InitOp EXCEPT !.kind = "save"]
  /\ UNCHANGED <<world, pre, ev, placed, stepped, watch, held, effectPending>>
  /\ UNCHANGED <<saveVars, cloudVars>>

InitLoad ==
  \E doc \in RawSnapshots : Boot(blankWorld(Width, Height), NoWatch, doc)

NextLoad == LoadGame \/ NextSession

SpecLoad == InitLoad /\ [][NextLoad]_vars

(***************************************************************************)
(* Claims about normalizeState, under SpecLoad.                            *)
(***************************************************************************)
IsLoad == op.kind = "load"

\* C13: for every snapshot that normalizeState accepts, normalizing the
\* result again gives a structurally equal result, also for snapshots with
\* legacy tags and keys or with missing fields; so a state saved as loaded
\* loads as itself.
C13_NormalizationIdempotent ==
  (IsLoad /\ loaded # TypeError) =>
    /\ normalizeState(loaded) = loaded
    /\ normalizeState(normalizeState(gameDoc)) = normalizeState(gameDoc)

\* A snapshot with a legacy terrain, legacy buffer keys, a legacy item and
\* legacy stats was loaded, and the loaded state differs from it.
C13_Witness ==
  /\ IsLoad
  /\ loaded # TypeError
  /\ loaded # gameDoc
  /\ "terrain" \in DOMAIN gameDoc.tiles[<<0, 0>>]
  /\ gameDoc.tiles[<<0, 0>>].terrain = "ore"
  /\ "resource" \notin DOMAIN gameDoc.tiles[<<0, 0>>]
  /\ "building" \in DOMAIN gameDoc.tiles[<<0, 0>>]
  /\ gameDoc.tiles[<<0, 0>>].building # RawNull
  /\ "buffer" \in DOMAIN gameDoc.tiles[<<0, 0>>].building
  /\ "ore" \in DOMAIN gameDoc.tiles[<<0, 0>>].building.buffer
  /\ gameDoc.items[<<0, 0>>] = [type |-> "plate"]
  /\ "stats" \in DOMAIN gameDoc
  /\ "oreMined" \in DOMAIN gameDoc.stats
  /\ loaded.tiles[<<0, 0>>].terrain = "iron"
  /\ loaded.tiles[<<0, 0>>].resource = 40
  /\ loaded.items[<<0, 0>>] = [type |-> "iron-plate"]

\* A fully valid world in the snapshot's own layout.
ValidWorld(w) ==
  /\ {"tick", "tiles", "items", "inventory", "stats"} \subseteq DOMAIN w
  /\ w.tick \in Int
  /\ \A p \in DOMAIN w.tiles :
       LET tile == w.tiles[p] IN
       /\ {"terrain", "resource", "building"} \subseteq DOMAIN tile
       /\ tile.terrain \in TerrainType
       /\ tile.resource >= 0
       /\ tile.building # RawNull =>
            /\ {"type", "dir", "progress", "buffer"} \subseteq DOMAIN tile.building
            /\ tile.building.type \in BuildingType
            /\ tile.building.dir \in Direction
            /\ tile.building.progress >= 0
            /\ DOMAIN tile.building.buffer = ItemType
  /\ \A p \in DOMAIN w.items :
       w.items[p] = RawNull \/ (DOMAIN w.items[p] = {"type"} /\ w.items[p].type \in ItemType)
  /\ DOMAIN w.inventory = ItemType
  /\ DOMAIN w.stats = StatNames

\* C14 as stated: normalizeState never fails and returns a fully valid world
\* for every raw snapshot, whichever fields are missing or hold unknown tags.
C14_AlwaysValid ==
  IsLoad => (loaded # TypeError /\ ValidWorld(loaded))

(***************************************************************************)
(* Claims about the stats, under SpecPlant.                                *)
(***************************************************************************)
\* The tiles on which the building at p put an item when it was scanned.
Created(p) ==
  LET before == BeforeScan(p)
      after == AfterScan(p)
  IN {n \in Positions(pre) : before.items[n] = NoItem /\ after.items[n] # NoItem}

\* The number of buildings of a type that put an item of a kind on the ground
\* in the production phase of the last step.
MadeBy(type, kind) ==
  Cardinality({p \in Positions(pre) :
                 /\ pre.tiles[p].building.type = type
                 /\ \E n \in Created(p) : AfterScan(p).items[n] = kind})

\* C12: no stat ever decreases; one step raises ironMined+copperMined by the
\* number of ores that mines emitted, ironPlates+copperPlates by the number
\* of plates that furnaces emitted, gearsCrafted by the number of gears and
\* wiresCrafted by the number of wires emitted, each counter by the emissions
\* of its own kind; placeBuilding leaves all stats unchanged.
C12_StatsCountEmissions ==
  /\ \A k \in StatNames : world.stats[k] >= pre.stats[k]
  /\ IsPlace => world.stats = pre.stats
  /\ IsStep =>
       /\ world.stats.ironMined = pre.stats.ironMined + MadeBy("mine", "iron-ore")
       /\ world.stats.copperMined = pre.stats.copperMined + MadeBy("mine", "copper-ore")
       /\ world.stats.ironPlates = pre.stats.ironPlates + MadeBy("furnace", "iron-plate")
       /\ world.stats.copperPlates = pre.stats.copperPlates + MadeBy("furnace", "copper-plate")
       /\ world.stats.gearsCrafted = pre.stats.gearsCrafted + MadeBy("assembler", "gear")
       /\ world.stats.wiresCrafted = pre.stats.wiresCrafted + MadeBy("wire-mill", "wire")
       /\ (world.stats.ironMined + world.stats.copperMined)
            - (pre.stats.ironMined + pre.stats.copperMined) = ev.ores
       /\ (world.stats.ironPlates + world.stats.copperPlates)
            - (pre.stats.ironPlates + pre.stats.copperPlates) = ev.plates
       /\ world.stats.gearsCrafted - pre.stats.gearsCrafted = ev.gears
       /\ world.stats.wiresCrafted - pre.stats.wiresCrafted = ev.wires

\* After a placement, one step in which the mine, the furnace, the assembler
\* and the wire-mill all emitted: four counters went up by one.
C12_Witness ==
  /\ IsStep
  /\ placed = 1
  /\ ev.ores = 1 /\ ev.plates = 1 /\ ev.gears = 1 /\ ev.wires = 1
  /\ world.stats.copperMined = pre.stats.copperMined + 1
  /\ world.stats.copperPlates = pre.stats.copperPlates + 1
  /\ world.stats.gearsCrafted = 1
  /\ world.stats.wiresCrafted = 1

(***************************************************************************)
(* SpecMerge: ticks on worlds with one host tile H (bare ground, a belt or *)
(* a building) and, on each tile around it, nothing, a loose item or a     *)
(* loaded belt that faces H.                                               *)
(***************************************************************************)
\* Where the host stands: a corner, an edge and an inner tile.
MergeCentres == {<<0, 0>>, <<1, 0>>, <<1, 1>>}

Hosts ==
  {[type |-> "none", dir |-> "up", buffer |-> createBuffer, item |-> i] : i \in {NoItem, "gear"}}
  \cup {[type |-> "belt", dir |-> d, buffer |-> createBuffer, item |-> i] :
          d \in Direction, i \in {NoItem, "wire"}}
  \cup {[type |-> "furnace", dir |-> "up", buffer |-> b, item |-> NoItem] :
          b \in {createBuffer, bufferOf("iron-ore", 1)}}
  \cup {[type |-> "assembler", dir |-> "up", buffer |-> bufferOf("iron-plate", n), item |-> NoItem] :
          n \in 0 .. 2}
  \cup {[type |-> "wire-mill", dir |-> "up", buffer |-> bufferOf("copper-plate", n), item |-> NoItem] :
          n \in 0 .. 1}
  \cup {[type |-> t, dir |-> "up", buffer |-> createBuffer, item |-> NoItem] :
          t \in {"hub", "chest", "mine"}}

\* The two kinds of item that come towards a host: what it takes in, and
\* something it does not.
Feeds(type) ==
  CASE type = "furnace"   -> <<"iron-ore", "copper-ore">>
    [] type = "assembler" -> <<"iron-plate", "gear">>
    [] type = "wire-mill" -> <<"copper-plate", "iron-ore">>
    [] OTHER              -> <<"iron-ore", "iron-plate">>

Nothing == [belt |-> FALSE, item |-> NoItem]

\* What stands on a tile around the host.
Arrivals(type) ==
  {Nothing, [belt |-> FALSE, item |-> Feeds(type)[1]]}
  \cup {[belt |-> TRUE, item |-> Feeds(type)[k]] : k \in 1 .. 2}

Opposite(dir) ==
  CASE dir = "up"    -> "down"
    [] dir = "right" -> "left"
    [] dir = "down"  -> "up"
    [] dir = "left"  -> "right"

RECURSIVE withArrivals(_, _, _, _)
withArrivals(w, c, ch, k) ==
  IF k > Len(DIRECTIONS) THEN w
  ELSE
    LET n == stepInDir(c[1], c[2], DIRECTIONS[k])
        w1 == IF ch[k] = Nothing THEN w
              ELSE IF ch[k].belt THEN withBelt(w, n, Opposite(DIRECTIONS[k]), ch[k].item)
              ELSE withItem(w, n, ch[k].item)
    IN withArrivals(w1, c, ch, k + 1)

\* An idle machine that may stand next to two of the tiles around an inner
\* host, and where it stands.
Bystanders == {"none", "furnace", "assembler"}

BystanderSpot == <<2, 2>>

MergeWorld(c, h, ch, by) ==
  LET w0 == blankWorld(Width, Height)
      w1 == IF h.type = "none" THEN w0
            ELSE withBuilding(w0, c, h.type, h.dir, 0, h.buffer)
      w2 == IF by = "none" THEN w1
            ELSE withBuilding(w1, BystanderSpot, by, "right", 0, createBuffer)
  IN withArrivals(withItem(w2, c, h.item), c, ch, 1)

InitMerge ==
  \E c \in MergeCentres, h \in Hosts, by \in Bystanders :
    \E ch \in [1 .. Len(DIRECTIONS) -> Arrivals(h.type)] :
      /\ \A k \in 1 .. Len(DIRECTIONS) :
           LET n == stepInDir(c[1], c[2], DIRECTIONS[k]) IN
           ~inBounds(blankWorld(Width, Height), n[1], n[2]) => ch[k] = Nothing
      /\ by # "none" => BystanderSpot \in Neighbors(blankWorld(Width, Height), stepInDir(c[1], c[2], "down"))
      /\ Start(MergeWorld(c, h, ch, by), NoWatch)

NextMerge == Step(MergeTicks)

SpecMerge == InitMerge /\ [][NextMerge]_vars

(***************************************************************************)
(* Claims about the transport phase, under SpecMerge.                      *)
(***************************************************************************)
\* The contender that the row-major scan reaches first.
FirstOf(w, C) == CHOOSE p \in C : \A q \in C : RowMajor(w, p) <= RowMajor(w, q)

\* C21: when two or more loaded belts face the same tile, which carries no
\* non-belt building and holds no item when the transport phase starts, then
\* after the step that tile holds the item of the contender that comes first
\* in row-major order, and every other contender still holds its own item.
C21_FirstMoverWins ==
  IsStep =>
    LET mid == Mid IN
    \A n \in Positions(pre) :
      LET C == Targeting(mid, n) IN
      (Cardinality(C) >= 2 /\ FreeTile(mid, n)) =>
        /\ world.items[n] = mid.items[FirstOf(mid, C)]
        /\ world.items[n] # NoItem
        /\ \A q \in C \ {FirstOf(mid, C)} : world.items[q] = mid.items[q]

\* Three loaded belts met on a free tile: the copy of the first one's ore is
\* there, the two scanned later kept their plates.
C21_Witness ==
  /\ IsStep
  /\ \E n \in Positions(pre) :
       LET mid == Mid
           C == Targeting(mid, n)
       IN
       /\ Cardinality(C) = 3
       /\ FreeTile(mid, n)
       /\ mid.items[FirstOf(mid, C)] = "iron-ore"
       /\ world.items[n] = "iron-ore"
       /\ \A q \in C \ {FirstOf(Mid, C)} : world.items[q] = "iron-plate"

(***************************************************************************)
(* Claims about deliveries to chests and hubs, under SpecMerge.            *)
(***************************************************************************)
\* The items that are, when the step starts, on a belt facing a chest or hub.
Deliveries ==
  {p \in BeltItems(pre) :
     /\ inBounds(pre, Ahead(pre, p)[1], Ahead(pre, p)[2])
     /\ pre.tiles[Ahead(pre, p)].building.type \in {"chest", "hub"}}

\* The building at q took the ground item of tile p when it was scanned.
TookFrom(q, p) ==
  /\ pre.tiles[q].building.type # "none"
  /\ BeforeScan(q).items[p] # NoItem
  /\ AfterScan(q).items[p] = NoItem

\* A neighbouring furnace, assembler or wire-mill took the item of tile p.
PickedUp(p) ==
  \E q \in Neighbors(pre, p) :
    /\ pre.tiles[q].building.type \in {"furnace", "assembler", "wire-mill"}
    /\ TookFrom(q, p)

\* A neighbouring hub took the item of tile p.
Vacuumed(p) ==
  \E q \in Neighbors(pre, p) :
    pre.tiles[q].building.type = "hub" /\ TookFrom(q, p)

Gain(k) == world.inventory[k] - pre.inventory[k]

\* C22 as stated: every item on a belt facing a chest or hub has left the
\* ground after one step, and the inventory of each kind went up by one per
\* such item (and per item a hub vacuumed besides), once each.
C22_Original ==
  IsStep =>
    /\ \A p \in Deliveries : world.items[p] = NoItem
    /\ \A k \in ItemType :
         Gain(k) = Cardinality({p \in Positions(pre) :
                                  pre.items[p] = k /\ (p \in Deliveries \/ Vacuumed(p))})

\* C22 amended: every item on a belt facing a chest or hub that no neighbouring
\* furnace, assembler or wire-mill picks up in the production phase of the
\* step has left the ground after the step, and the inventory of each kind
\* went up by exactly one per such item and per other item that a hub
\* vacuumed: no item is credited twice and none stays on its belt.
C22_DeliveredOnce ==
  IsStep =>
    /\ \A p \in Deliveries : ~PickedUp(p) => world.items[p] = NoItem
    /\ \A k \in ItemType :
         Gain(k) = Cardinality({p \in Positions(pre) :
                                  /\ pre.items[p] = k
                                  /\ \/ (p \in Deliveries /\ ~PickedUp(p))
                                     \/ Vacuumed(p)})

\* Two belts faced a hub: the hub vacuumed the item of one, the transport
\* phase delivered the item of the other, and the inventory went up by two.
C22_Witness ==
  /\ IsStep
  /\ \E p \in Deliveries, q \in Deliveries :
       /\ Vacuumed(p) /\ ~Vacuumed(q)
       /\ ~PickedUp(q)
       /\ Mid.items[q] = pre.items[q]
       /\ pre.items[p] = "iron-ore" /\ pre.items[q] = "iron-plate"
       /\ world.items[p] = NoItem /\ world.items[q] = NoItem
       /\ Gain("iron-ore") = 1 /\ Gain("iron-plate") = 1

(***************************************************************************)
(* Claims about the input gate of the machines, under SpecMerge.           *)
(***************************************************************************)
\* The gate as the claim words it.
Accepts(type, item, buffer) ==
  CASE type = "furnace" ->
         /\ item \in {"iron-ore", "copper-ore"}
         /\ buffer["iron-ore"] = 0 /\ buffer["copper-ore"] = 0
    [] type = "assembler" -> item = "iron-plate" /\ buffer["iron-plate"] < 2
    [] type = "wire-mill" -> item = "copper-plate" /\ buffer["copper-plate"] < 1
    [] OTHER -> FALSE

\* The machine m after the feeders F of the grid w were decided one at a time in row-major
\* order, each against the buffer the earlier ones left, and the feeders that
\* were accepted.
RECURSIVE Fed(_, _, _, _)
Fed(w, m, F, accepted) ==
  IF F = {} THEN [machine |-> m, accepted |-> accepted]
  ELSE LET p == FirstOf(w, F)
           item == w.items[p]
       IN IF Accepts(m.type, item, m.buffer)
            THEN Fed(w, [m EXCEPT !.buffer[item] = @ + 1, !.progress = 0],
                     F \ {p}, accepted \cup {p})
            ELSE Fed(w, m, F \ {p}, accepted)

Machines(w) ==
  {c \in Positions(w) : w.tiles[c].building.type \in {"furnace", "assembler", "wire-mill"}}

\* C23: in the transport phase each loaded belt facing a furnace, assembler
\* or wire-mill is decided in row-major order against the buffer as the
\* earlier acceptances left it; an accepted item adds 1 to its buffer slot,
\* sets the machine's progress to 0 and leaves its tile empty, a refused one
\* stays where it was and changes neither buffer nor progress.
C23_InputGate ==
  IsStep =>
    LET mid == Mid IN
    \A c \in Machines(pre) :
      LET r == Fed(mid, mid.tiles[c].building, Targeting(mid, c), {}) IN
      /\ world.tiles[c].building = r.machine
      /\ \A p \in Targeting(mid, c) :
           IF p \in r.accepted THEN world.items[p] = NoItem
                               ELSE world.items[p] = mid.items[p]

\* Three belts brought iron-plates to an empty assembler: it picked one up in
\* the production phase, the transport phase let the plate scanned first in
\* and refused the one scanned after it.
C23_Witness ==
  /\ IsStep
  /\ \E c \in Machines(pre) :
       /\ Mid.tiles[c].building.type = "assembler"
       /\ pre.tiles[c].building.buffer["iron-plate"] = 0
       /\ Mid.tiles[c].building.buffer["iron-plate"] = 1
       /\ world.tiles[c].building.buffer["iron-plate"] = 2
       /\ world.tiles[c].building.progress = 0
       /\ \E p \in Targeting(Mid, c), q \in Targeting(Mid, c) :
            /\ RowMajor(pre, p) < RowMajor(pre, q)
            /\ pre.items[p] = "iron-plate" /\ pre.items[q] = "iron-plate"
            /\ world.items[p] = NoItem
            /\ world.items[q] = "iron-plate"

(***************************************************************************)
(* Claims about belts that lead nowhere, under SpecMerge.                  *)
(***************************************************************************)
\* The belt items of a grid whose forward tile is out of bounds or carries a
\* mine.
DeadEnds(w) ==
  {p \in BeltItems(w) :
     \/ ~inBounds(w, Ahead(w, p)[1], Ahead(w, p)[2])
     \/ w.tiles[Ahead(w, p)].building.type = "mine"}

\* The belt items that the transport phase hands to a chest or hub.
Handed(w, k) ==
  {p \in BeltItems(w) :
     /\ w.items[p] = k
     /\ inBounds(w, Ahead(w, p)[1], Ahead(w, p)[2])
     /\ w.tiles[Ahead(w, p)].building.type \in {"chest", "hub"}}

\* C24: a belt item whose forward tile is out of bounds or carries a mine
\* when the transport phase starts is on the same tile, with the same kind,
\* after the step; the mine it faces is as the production phase left it, and
\* the inventory gains of the transport phase are those of the items handed
\* to chests and hubs, so such an item adds nothing to it.
C24_DeadEndStays ==
  IsStep =>
    LET mid == Mid IN
    /\ \A p \in DeadEnds(mid) :
         /\ world.items[p] = mid.items[p]
         /\ world.tiles[p] = mid.tiles[p]
         /\ inBounds(mid, Ahead(mid, p)[1], Ahead(mid, p)[2])
              => world.tiles[Ahead(mid, p)] = mid.tiles[Ahead(mid, p)]
    /\ DeadEnds(mid) # {} =>
         \A k \in ItemType :
           world.inventory[k] - mid.inventory[k] = Cardinality(Handed(mid, k))

\* Two loaded belts faced a mine: after two steps both items are where they
\* were, and nothing was credited.
C24_Witness ==
  /\ IsStep
  /\ stepped = 2
  /\ \E p \in DeadEnds(Mid), q \in DeadEnds(Mid) :
       /\ p # q
       /\ pre.tiles[Ahead(pre, p)].building.type = "mine"
       /\ Ahead(pre, q) = Ahead(pre, p)
       /\ world.items[p] = "iron-ore"
       /\ world.items[q] = "iron-plate"
  /\ world.inventory = StarterInventory

(***************************************************************************)
(* Claims about the hub, under SpecMerge.                                  *)
(***************************************************************************)
\* The numbers of the directions, in the fixed order, in which the tile next
\* to q is in bounds and holds a ground item in w.
LoadedSides(w, q) ==
  {k \in 1 .. Len(DIRECTIONS) :
     LET n == stepInDir(q[1], q[2], DIRECTIONS[k]) IN
     inBounds(w, n[1], n[2]) /\ w.items[n] # NoItem}

\* The first of them.
FirstSide(w, q) ==
  LET k == CHOOSE k \in LoadedSides(w, q) : \A j \in LoadedSides(w, q) : k <= j
  IN stepInDir(q[1], q[2], DIRECTIONS[k])

Hubs(w) == {q \in Positions(w) : w.tiles[q].building.type = "hub"}

\* C26: when the production scan reaches a hub, the hub removes the ground
\* item of the first tile, in the order up, right, down, left, that is in
\* bounds and holds one, whatever its kind, and the inventory of that kind
\* goes up by 1; nothing else changes, and a hub with no ground item around
\* it changes nothing.
C26_HubVacuum ==
  IsStep =>
    \A q \in Hubs(pre) :
      LET before == BeforeScan(q)
          after == AfterScan(q)
      IN IF LoadedSides(before, q) = {} THEN after = before
         ELSE LET n == FirstSide(before, q)
                  kind == before.items[n]
              IN /\ after.items = [before.items EXCEPT ![n] = NoItem]
                 /\ after.inventory = [before.inventory EXCEPT ![kind] = @ + 1]
                 /\ after.tiles = before.tiles
                 /\ after.stats = before.stats
                 /\ after.tick = before.tick

\* A hub with ground items on more than one side took the one that comes
\* first in the fixed order, which is not the first in row-major order, and
\* left the others for the transport phase.
C26_Witness ==
  /\ IsStep
  /\ \E q \in Hubs(pre) :
       LET before == BeforeScan(q)
           after == AfterScan(q)
       IN /\ Cardinality(LoadedSides(before, q)) >= 2
          /\ after.items[FirstSide(before, q)] = NoItem
          /\ \E k \in LoadedSides(before, q) :
               LET n == stepInDir(q[1], q[2], DIRECTIONS[k]) IN
               /\ RowMajor(pre, n) < RowMajor(pre, FirstSide(before, q))
               /\ after.items[n] = before.items[n]
          /\ SumOver(after.inventory, ItemType) = SumOver(before.inventory, ItemType) + 1

(***************************************************************************)
(* SpecChain: ticks on worlds with a tile T in the middle, bare or a belt, *)
(* an emitter E next to it that faces it and is about to emit, and a       *)
(* consumer K on another tile next to it.                                  *)
(***************************************************************************)
ChainSpot == <<1, 1>>

\* The emitters, one tick before they emit, and the terrain under them.
Emitters ==
  {[type |-> "mine", progress |-> MINE_TICKS - 1, buffer |-> createBuffer, terrain |-> m] :
     m \in {"iron", "copper"}}
  \cup {[type |-> "furnace", progress |-> FURNACE_TICKS - 1, buffer |-> bufferOf(o, 1),
         terrain |-> "empty"] : o \in {"iron-ore", "copper-ore"}}
  \cup {[type |-> "assembler", progress |-> ASSEMBLER_TICKS - 1,
         buffer |-> bufferOf("iron-plate", 2), terrain |-> "empty"],
        [type |-> "wire-mill", progress |-> WIRE_MILL_TICKS - 1,
         buffer |-> bufferOf("copper-plate", 1), terrain |-> "empty"]}

\* The consumers, short of input.
Consumers ==
  {[type |-> "furnace", buffer |-> createBuffer],
   [type |-> "assembler", buffer |-> createBuffer],
   [type |-> "assembler", buffer |-> bufferOf("iron-plate", 1)],
   [type |-> "wire-mill", buffer |-> createBuffer],
   [type |-> "hub", buffer |-> createBuffer]}

\* What T carries: nothing, or a belt.
ChainGrounds == {"none"} \cup Direction

ChainWorld(kE, m, kK, c, g) ==
  LET w0 == blankWorld(Width, Height)
      pE == stepInDir(ChainSpot[1], ChainSpot[2], DIRECTIONS[kE])
      pK == stepInDir(ChainSpot[1], ChainSpot[2], DIRECTIONS[kK])
      w1 == IF m.terrain = "empty" THEN w0 ELSE withOre(w0, pE, m.terrain, 2)
      w2 == withBuilding(w1, pE, m.type, Opposite(DIRECTIONS[kE]), m.progress, m.buffer)
      w3 == withBuilding(w2, pK, c.type, "up", 0, c.buffer)
  IN IF g = "none" THEN w3
     ELSE withBuilding(w3, ChainSpot, "belt", g, 0, createBuffer)

InitChain ==
  \E kE \in 1 .. Len(DIRECTIONS), kK \in 1 .. Len(DIRECTIONS),
     m \in Emitters, c \in Consumers, g \in ChainGrounds :
    /\ kE # kK
    /\ Start(ChainWorld(kE, m, kK, c, g), NoWatch)

NextChain == Step(ChainTicks)

SpecChain == InitChain /\ [][NextChain]_vars

(***************************************************************************)
(* Claims about the order of the two phases, under SpecChain.              *)
(***************************************************************************)
\* The building b picks an item of this kind up from a neighbouring tile.
PicksUp(b, item) == b.type = "hub" \/ Accepts(b.type, item, b.buffer)

\* The buildings next to T that pick such an item up and have no ground item
\* on any other side when the production scan reaches them.
Takers(T, item) ==
  {q \in Neighbors(pre, T) :
     /\ PicksUp(pre.tiles[q].building, item)
     /\ LET before == BeforeScan(q) IN
        \A n \in Neighbors(pre, q) \ {T} : before.items[n] = NoItem}

\* What the building at q holds of a kind, in its buffer or, for a hub, in
\* the inventory.
Holding(w, q, item) ==
  IF w.tiles[q].building.type = "hub" THEN w.inventory[item]
  ELSE w.tiles[q].building.buffer[item]

\* The outcome for the takers scanned after e: the first of them picked the
\* item up in the same step, its buffer (the inventory, for a hub) holds one
\* more of the kind after the step and T is empty.
TakenInStep(T, item, later) ==
  LET k == FirstOf(pre, later) IN
  /\ Mid.items[T] = NoItem
  /\ world.items[T] = NoItem
  /\ Holding(world, k, item) = Holding(pre, k, item) + 1
  /\ \A q \in later \ {k} : Holding(world, q, item) = Holding(pre, q, item)

\* What the transport phase does with an item left on T: it stays when T is
\* no belt and goes one tile on when T is a belt with a free tile ahead.
CarriedOn(T, item) ==
  /\ Mid.items[T] = item
  /\ Mid.tiles[T].building.type = "none" => world.items[T] = item
  /\ (Mid.tiles[T].building.type = "belt" /\ FreeTile(Mid, Ahead(Mid, T)))
       => /\ world.items[Ahead(Mid, T)] = item
          /\ world.items[T] = NoItem

\* C25 as stated: when a building e puts an item on tile T in the production
\* phase, the first taker next to T scanned after e has it at the end of the
\* step and T is empty; a taker scanned before e does not have it before the
\* next step; the transport phase starts from the grid the production phase
\* left.
C25_Original ==
  IsStep =>
    \A e \in Positions(pre) : \A T \in Created(e) :
      LET item == AfterScan(e).items[T]
          takers == Takers(T, item)
          later == {q \in takers : RowMajor(pre, q) > RowMajor(pre, e)}
          earlier == {q \in takers : RowMajor(pre, q) < RowMajor(pre, e)}
      IN IF later # {} THEN TakenInStep(T, item, later)
         ELSE /\ CarriedOn(T, item)
              /\ \A q \in earlier : Holding(world, q, item) = Holding(pre, q, item)

\* C25 amended: when a building e puts an item on tile T in the production
\* phase, the first taker next to T scanned after e has it at the end of the
\* step and T is empty; a taker scanned before e does not pick it up in the
\* production phase of that step, so the item lies on T when that phase
\* ends; the transport phase starts from that grid (and may hand the item to
\* that very taker when T is a belt facing it).
C25_InPlaceProduction ==
  IsStep =>
    \A e \in Positions(pre) : \A T \in Created(e) :
      LET item == AfterScan(e).items[T]
          takers == Takers(T, item)
          later == {q \in takers : RowMajor(pre, q) > RowMajor(pre, e)}
          earlier == {q \in takers : RowMajor(pre, q) < RowMajor(pre, e)}
      IN IF later # {} THEN TakenInStep(T, item, later)
         ELSE /\ CarriedOn(T, item)
              /\ \A q \in earlier :
                   /\ Holding(Mid, q, item) = Holding(pre, q, item)
                   /\ Holding(world, q, item) # Holding(pre, q, item)
                        => /\ Mid.tiles[T].building.type = "belt"
                           /\ Ahead(Mid, T) = q
                           /\ world.items[T] = NoItem
                           /\ Holding(world, q, item) = Holding(pre, q, item) + 1

\* A furnace put an iron-plate on T and the assembler scanned after it has
\* the plate in its buffer at the end of the same step.
C25_Witness ==
  /\ IsStep
  /\ \E e \in Positions(pre) : \E T \in Created(e) :
       /\ pre.tiles[e].building.type = "furnace"
       /\ AfterScan(e).items[T] = "iron-plate"
       /\ \E k \in Takers(T, "iron-plate") :
            /\ RowMajor(pre, k) > RowMajor(pre, e)
            /\ pre.tiles[k].building.type = "assembler"
            /\ world.tiles[k].building.buffer["iron-plate"]
                 = pre.tiles[k].building.buffer["iron-plate"] + 1
       /\ world.items[T] = NoItem

(***************************************************************************)
(* SpecPlay: placement commands and ticks on a small factory: a mine on    *)
(* the last unit of an ore tile that feeds a furnace over a belt, and an   *)
(* empty assembler with three loaded belts around it.                      *)
(***************************************************************************)
\* The mine is `off` ticks away from emitting.
PlayWorld(off) ==
  LET w0 == withOre(blankWorld(Width, Height), <<0, 0>>, "iron", 1)
      w1 == withBuilding(w0, <<0, 0>>, "mine", "right", MINE_TICKS - off, createBuffer)
      w2 == withBuilding(w1, <<1, 0>>, "belt", "right", 0, createBuffer)
      w3 == withBuilding(w2, <<2, 0>>, "furnace", "down", 0, createBuffer)
      w4 == withBuilding(w3, <<1, 2>>, "assembler", "up", 0, createBuffer)
      w5 == withBelt(w4, <<1, 1>>, "down", "iron-plate")
      w6 == withBelt(w5, <<0, 2>>, "right", "iron-plate")
  IN withBelt(w6, <<2, 2>>, "left", "iron-plate")

InitPlay == \E off \in 1 .. PlayTicks : Start(PlayWorld(off), NoWatch)

\* Where the commands go: onto the mine, onto a loaded belt, onto the
\* assembler.
PlaySpots == {<<0, 0>>, <<1, 1>>, <<1, 2>>}

NextPlay ==
  \/ Step(PlayTicks)
  \/ \E p \in PlaySpots, tool \in Tool : Place(p[1], p[2], tool, "up")

SpecPlay == InitPlay /\ [][NextPlay]_vars

(***************************************************************************)
(* Claims about every world of a game, under SpecPlay.                     *)
(***************************************************************************)
\* C27: in every world each tile has resource >= 0 and empty terrain exactly
\* when its resource is 0; the step in which a mine emits the last unit of
\* its tile leaves the tile with resource 0 and empty terrain.
C27_TerrainResource ==
  /\ \A p \in Positions(world) :
       /\ world.tiles[p].resource >= 0
       /\ world.tiles[p].terrain = "empty" <=> world.tiles[p].resource = 0
  /\ IsStep =>
       \A p \in ev.emitters :
         (pre.tiles[p].building.type = "mine" /\ pre.tiles[p].resource = 1)
           => /\ world.tiles[p].resource = 0
              /\ world.tiles[p].terrain = "empty"

\* After a placement elsewhere the mine emitted the last unit of its tile:
\* the ore is out and the tile is empty ground.
C27_Witness ==
  /\ IsStep
  /\ placed = 1
  /\ \E p \in ev.emitters :
       /\ pre.tiles[p].building.type = "mine"
       /\ pre.tiles[p].terrain = "iron" /\ pre.tiles[p].resource = 1
       /\ world.tiles[p].terrain = "empty" /\ world.tiles[p].resource = 0
       /\ world.stats.ironMined = 1

\* C29: in every world all buffer counts are >= 0, a furnace holds at most
\* one ore (iron-ore + copper-ore <= 1), an assembler at most 2 iron-plates,
\* a wire-mill at most 1 copper-plate, every other entry of their buffers is
\* 0, and the buffers of mines, belts, hubs and chests are all zero.
C29_BufferBounds ==
  \A p \in Positions(world) :
    LET b == world.tiles[p].building
        others(K) == \A k \in ItemType \ K : b.buffer[k] = 0
    IN /\ \A k \in ItemType : b.buffer[k] >= 0
       /\ CASE b.type = "furnace" ->
                 /\ b.buffer["iron-ore"] + b.buffer["copper-ore"] <= 1
                 /\ others({"iron-ore", "copper-ore"})
            [] b.type = "assembler" ->
                 b.buffer["iron-plate"] <= 2 /\ others({"iron-plate"})
            [] b.type = "wire-mill" ->
                 b.buffer["copper-plate"] <= 1 /\ others({"copper-plate"})
            [] OTHER -> others({})

\* In one step the assembler picked a plate up from a neighbouring tile and
\* took a second one from a belt; it is full, and the third plate waits on
\* its belt.
C29_Witness ==
  /\ IsStep
  /\ \E p \in Positions(pre) :
       /\ pre.tiles[p].building.type = "assembler"
       /\ pre.tiles[p].building.buffer["iron-plate"] = 0
       /\ Mid.tiles[p].building.buffer["iron-plate"] = 1
       /\ world.tiles[p].building.buffer["iron-plate"] = 2
       /\ \E q \in Targeting(Mid, p) : world.items[q] = "iron-plate"

\* C30: in every world each tile that holds a ground item carries no
\* building or a belt.
C30_ItemsOnOpenTiles ==
  \A p \in Positions(world) :
    world.items[p] # NoItem => world.tiles[p].building.type \in {"none", "belt"}

\* A machine was placed on a belt that carried a plate: the plate is gone.
C30_Witness ==
  /\ IsPlace
  /\ inBounds(pre, op.x, op.y)
  /\ pre.items[OpPos] = "iron-plate"
  /\ world.tiles[OpPos].building.type \notin {"none", "belt"}
  /\ world.items[OpPos] = NoItem

(***************************************************************************)
(* Claims about the accounts of each item kind, under SpecChain.           *)
(***************************************************************************)
\* Ground items + all building buffers + inventory, of one kind.
KindTotal(w, k) ==
  Cardinality({p \in Positions(w) : w.items[p] = k})
  + SumOver([p \in Positions(w) |-> w.tiles[p].building.buffer[k]], Positions(w))
  + w.inventory[k]

Delta(stat) == world.stats[stat] - pre.stats[stat]

\* C28: in every step the number of items of each kind, over the ground, all
\* buffers and the inventory, changes by what was produced and consumed and
\* by nothing else: iron-ore by mined minus smelted, copper-ore likewise,
\* iron-plate by smelted minus two per gear, copper-plate by smelted minus
\* one per wire, gear and wire by the number crafted.
C28_KindAccounting ==
  IsStep =>
    /\ KindTotal(world, "iron-ore") - KindTotal(pre, "iron-ore")
         = Delta("ironMined") - Delta("ironPlates")
    /\ KindTotal(world, "copper-ore") - KindTotal(pre, "copper-ore")
         = Delta("copperMined") - Delta("copperPlates")
    /\ KindTotal(world, "iron-plate") - KindTotal(pre, "iron-plate")
         = Delta("ironPlates") - 2 * Delta("gearsCrafted")
    /\ KindTotal(world, "copper-plate") - KindTotal(pre, "copper-plate")
         = Delta("copperPlates") - Delta("wiresCrafted")
    /\ KindTotal(world, "gear") - KindTotal(pre, "gear") = Delta("gearsCrafted")
    /\ KindTotal(world, "wire") - KindTotal(pre, "wire") = Delta("wiresCrafted")

\* A furnace turned a copper-ore into a copper-plate, and the wire-mill next
\* to the plate took it off the ground in the same step.
C28_Witness ==
  /\ IsStep
  /\ Delta("copperPlates") = 1
  /\ KindTotal(world, "copper-ore") = KindTotal(pre, "copper-ore") - 1
  /\ KindTotal(world, "copper-plate") = KindTotal(pre, "copper-plate") + 1
  /\ GroundCount(world) = 0
  /\ \E p \in Positions(world) :
       /\ world.tiles[p].building.type = "wire-mill"
       /\ world.tiles[p].building.buffer["copper-plate"] = 1

\* ---------------------------------------------------------------------------
\* A works built by placement on a generated world: one ore deposit, the
\* starter inventory, no item and no building.  The player places a mine on
\* the deposit, a furnace beside the mine's drop tile and a wire-mill beside
\* the furnace's drop tile; then the interval ticks while single commands
\* land on the mine or on the wire-mill.
\* ---------------------------------------------------------------------------

WorksWorld(metal, ore) ==
  LET w0 == withOre(blankWorld(Width, Height), <<0, 0>>, metal, ore)
      w1 == placeBuilding(w0, 0, 0, "mine", "right")
      w2 == placeBuilding(w1, 1, 1, "furnace", "right")
  IN placeBuilding(w2, 2, 2, "wire-mill", "left")

\* The deposit is iron or copper and holds the least seedOre gives a tile, or
\* is two ores from exhaustion.
InitWorks ==
  \E metal \in {"iron", "copper"}, ore \in {25, 2} :
    Start(WorksWorld(metal, ore), NoWatch)

NextWorks ==
  \/ Step(WorksTicks)
  \/ \E p \in {<<0, 0>>, <<2, 2>>}, tool \in Tool : Place(p[1], p[2], tool, "left")

SpecWorks == InitWorks /\ [][NextWorks]_vars

\* C31: in every world reached from a generated world by steps and
\* placements the counters respect the production chain: no more iron plates
\* than iron ores mined, no more copper plates than copper ores mined, two
\* plates behind every gear crafted and one copper plate behind every wire.
C31_ChainBound ==
  /\ world.stats.ironPlates <= world.stats.ironMined
  /\ world.stats.copperPlates <= world.stats.copperMined
  /\ 2 * world.stats.gearsCrafted <= world.stats.ironPlates
  /\ world.stats.wiresCrafted <= world.stats.copperPlates

\* The copper chain has run to its end: ore mined, plate smelted, wire drawn,
\* with a command in between.
C31_Witness ==
  /\ world.stats.copperMined >= 1
  /\ world.stats.copperPlates >= 1
  /\ world.stats.wiresCrafted >= 1
  /\ placed >= 1

\* Ore still in the ground plus ore ever mined.
OreAccount(w) ==
  SumOver([p \in Positions(w) |-> w.tiles[p].resource], Positions(w))
    + w.stats.ironMined + w.stats.copperMined

\* C32: ore deposits are conserved.  A step or a command leaves resource in
\* the ground + ironMined + copperMined unchanged; in a step a tile's resource
\* drops by one exactly when the mine on it emits an ore and never goes below
\* zero; a placement or an erase changes no tile's resource or terrain.
C32_OreConserved ==
  /\ (IsStep \/ IsPlace) => OreAccount(world) = OreAccount(pre)
  /\ IsStep =>
       \A p \in Positions(pre) :
         /\ pre.tiles[p].resource - world.tiles[p].resource =
              (IF p \in ev.emitters /\ pre.tiles[p].building.type = "mine" THEN 1 ELSE 0)
         /\ world.tiles[p].resource >= 0
  /\ IsPlace =>
       \A p \in Positions(pre) :
         /\ world.tiles[p].resource = pre.tiles[p].resource
         /\ world.tiles[p].terrain = pre.tiles[p].terrain

\* The mine takes the last ore of its deposit, after a command.
C32_Witness ==
  /\ IsStep
  /\ placed >= 1
  /\ <<0, 0>> \in ev.emitters
  /\ pre.tiles[<<0, 0>>].resource = 1
  /\ world.tiles[<<0, 0>>].resource = 0
  /\ world.stats.ironMined + world.stats.copperMined = 2

\* C33: the inventory never goes negative.  In every world reached from a
\* generated world by steps and placements, repeated and overwriting ones
\* included, the inventory has exactly the six item keys and every count is
\* at least zero.
C33_InventoryNonNegative ==
  /\ DOMAIN world.inventory = ItemType
  /\ \A k \in ItemType : world.inventory[k] >= 0

\* A fourth placement, over an existing building, spends the last unit of
\* some item.
C33_Witness ==
  /\ IsPlace
  /\ op.tool # "erase"
  /\ pre.tiles[OpPos].building.type # "none"
  /\ world.tiles[OpPos].building.type = op.tool
  /\ \E k \in ItemType : pre.inventory[k] > 0 /\ world.inventory[k] = 0

\* ---------------------------------------------------------------------------
\* A tile, bare or holding an item, and what stands on its four sides: nothing,
\* a mine one tick from emitting onto it, a loaded belt facing it, an idle
\* furnace, a furnace one tick from emitting onto it, or a hub.
\* ---------------------------------------------------------------------------

RestSpot == <<1, 1>>

withSide(w, d, side) ==
  LET n == stepInDir(RestSpot[1], RestSpot[2], d)
      back == Opposite(d)
  IN CASE side = "mine" ->
            withBuilding(withOre(w, n, "iron", 2), n, "mine", back, MINE_TICKS - 1, createBuffer)
       [] side = "belt" -> withBelt(w, n, back, "wire")
       [] side = "furnace" -> withBuilding(w, n, "furnace", back, 0, createBuffer)
       [] side = "smelting" ->
            withBuilding(w, n, "furnace", back, FURNACE_TICKS - 1, bufferOf("iron-ore", 1))
       [] side = "hub" -> withBuilding(w, n, "hub", back, 0, createBuffer)
       [] OTHER -> w

RestWorld(kind, sides) ==
  LET w0 == withItem(blankWorld(Width, Height), RestSpot, kind)
      w1 == withSide(w0, "up", sides["up"])
      w2 == withSide(w1, "right", sides["right"])
      w3 == withSide(w2, "down", sides["down"])
  IN withSide(w3, "left", sides["left"])

InitRest ==
  \E kind \in {NoItem, "gear", "iron-ore"},
     sides \in [Direction -> {"none", "mine", "belt", "furnace", "smelting", "hub"}] :
    Start(RestWorld(kind, sides), NoWatch)

NextRest == Step(RestTicks)

SpecRest == InitRest /\ [][NextRest]_vars

\* The item grid the transport phase writes, as the loop found it when it
\* reached tile p and as it left it.
MovedBefore(mid, p) ==
  transportRange([w |-> mid, moved |-> cloneItemGrid(mid.items)], 0, RowMajor(mid, p)).moved

MovedAfter(mid, p) ==
  transportRange([w |-> mid, moved |-> cloneItemGrid(mid.items)], 0, RowMajor(mid, p) + 1).moved

\* A ground item on a tile without a belt, with no furnace, assembler,
\* wire-mill or hub on any of the four sides.
Resting(w, p) ==
  /\ w.items[p] # NoItem
  /\ w.tiles[p].building.type # "belt"
  /\ \A n \in Neighbors(w, p) :
       w.tiles[n].building.type \notin {"furnace", "assembler", "wire-mill", "hub"}

\* C34: a step leaves resting items alone.  A resting item is after the step
\* on the same tile with the same kind; no building's turn in the production
\* scan replaces an item that lies on a tile (an emission lands on a tile that
\* was empty), and no belt's turn in the transport loop changes a tile of the
\* written grid that holds an item, other than the belt's own.
C34_RestingItemsStay ==
  IsStep =>
    LET mid == Mid IN
    /\ \A p \in Positions(pre) : Resting(pre, p) => world.items[p] = pre.items[p]
    /\ \A p \in Positions(pre) :
         LET before == BeforeScan(p)
             after == AfterScan(p)
         IN /\ \A n \in Positions(pre) :
                 before.items[n] # NoItem => after.items[n] \in {NoItem, before.items[n]}
            /\ p \in ev.emitters => before.items[Ahead(pre, p)] = NoItem
    /\ \A p \in Positions(pre) :
         LET before == MovedBefore(mid, p)
             after == MovedAfter(mid, p)
         IN \A n \in Positions(pre) \ {p} : before[n] # NoItem => after[n] = before[n]

\* A gear rests on the tile while a mine and a furnace are ready to emit onto
\* it and a loaded belt faces it: after the step the gear is still there, the
\* mine and the furnace are held up and the belt still holds its item.
C34_Witness ==
  /\ IsStep
  /\ Resting(world, RestSpot)
  /\ pre.items[RestSpot] = "gear"
  /\ world.items[RestSpot] = "gear"
  /\ \E a, b \in Neighbors(pre, RestSpot) :
       /\ pre.tiles[a].building.type = "mine"
       /\ a \in ev.blocked
       /\ b \in Targeting(pre, RestSpot)
       /\ world.items[b] = pre.items[b]

\* ---------------------------------------------------------------------------
\* A simple line: up to LineLen belts, each facing the next, the last facing a
\* chest or a hub, anywhere on the grid and bent any way; nothing else is
\* built.  The i-th belt of a line holds no item or the item of the i-th kind,
\* so every item can be told apart.  The 250 ms interval keeps ticking.
\* ---------------------------------------------------------------------------

LineKinds == <<"iron-ore", "copper-ore", "wire", "iron-plate", "copper-plate", "gear">>

\* The tiles of a line that starts at p and turns as dirs says, the sink last.
RECURSIVE LineTiles(_, _)
LineTiles(p, dirs) ==
  IF dirs = <<>> THEN <<p>>
  ELSE <<p>> \o LineTiles(stepInDir(p[1], p[2], Head(dirs)), Tail(dirs))

RECURSIVE layBelts(_, _, _, _, _)
layBelts(w, tiles, dirs, full, i) ==
  IF i > Len(dirs) THEN w
  ELSE layBelts(withBelt(w, tiles[i], dirs[i], IF i \in full THEN LineKinds[i] ELSE NoItem),
                tiles, dirs, full, i + 1)

LineWorld(p, dirs, full, sink) ==
  LET tiles == LineTiles(p, dirs)
      w == layBelts(blankWorld(Width, Height), tiles, dirs, full, 1)
  IN withBuilding(w, tiles[Len(tiles)], sink, "up", 0, createBuffer)

InitLine ==
  \E n \in 1 .. LineLen :
    \E p \in (0 .. Width - 1) \X (0 .. Height - 1), dirs \in [1 .. n -> Direction],
       full \in SUBSET (1 .. n), sink \in {"chest", "hub"} :
      LET tiles == LineTiles(p, dirs) IN
      /\ \A i \in 1 .. n + 1 : inBounds(blankWorld(Width, Height), tiles[i][1], tiles[i][2])
      /\ Cardinality({tiles[i] : i \in 1 .. n + 1}) = n + 1
      /\ Start(LineWorld(p, dirs, full, sink), NoWatch)

\* The interval ticks; 2 * LineLen ticks are enough for the slowest line:
\* against the scan order only the lead item advances in a tick.
NextLine == Step(2 * LineLen)

\* A tick of the interval, by what enables it and by the counter it advances:
\* the steps of NextLine that satisfy it are exactly its Step steps.
Ticking == world.tick < 2 * LineLen /\ stepped' = stepped + 1

\* setInterval fires again and again: a tick that can be taken is taken.
SpecLineLive == InitLine /\ [][NextLine]_vars /\ WF_stepped(Ticking)

OnGround(k) == \E p \in Positions(world) : world.items[p] = k

Credited(k) ==
  /\ ~OnGround(k)
  /\ world.inventory[k] = StarterInventory[k] + 1

\* C35: no permanent jam on a simple line.  Whatever the orientation and the
\* bends of the line, every item that is on it is eventually off the ground
\* and counted once in the inventory.
C35_NoPermanentJam == \A k \in ItemType : OnGround(k) ~> Credited(k)

\* A full line of LineLen belts running against the scan order (right, then
\* down) into a chest has delivered both of its items.
C35_Witness ==
  /\ IsStep
  /\ stepped >= 3
  /\ world.tiles[<<0, 0>>].building.type = "belt"
  /\ world.tiles[<<0, 0>>].building.dir = "right"
  /\ world.tiles[<<1, 0>>].building.type = "belt"
  /\ world.tiles[<<1, 0>>].building.dir = "down"
  /\ world.tiles[<<1, 1>>].building.type = "chest"
  /\ pre.items[<<1, 0>>] = LineKinds[1]
  /\ Credited(LineKinds[1])
  /\ Credited(LineKinds[2])

====
